---- MODULE Spec2Model ----
(***************************************************************************)
(* Fetch-and-ingest pipeline of the gift parser: AsyncDownloader           *)
(* (semaphore, throttler, tenacity retry), CacheManager (resume cache),    *)
(* DataManager (collection store) and CollectionManager.process_collection.*)
(***************************************************************************)
EXTENDS Integers, Sequences, FiniteSets, TLC

\* ---------------------------------------------------------------- bounds
\* Longest URL list of a collection file.
MaxUrls == 3
\* Clock ticks per second of the throttler's period (time granularity).
TicksPerSecond == 1
\* Latest logical time at which a component-level operation may start.
MaxClock == 2
\* Longest list of records of one add_gifts_to_collection call.
MaxBatch == 2
\* The longest list of collections of file_list.txt.
MaxCollections == 2

\* ------------------------------------------------------ program constants
\* config.MAX_CONCURRENT_REQUESTS (100 in config.py), scaled down.
MAX_CONCURRENT_REQUESTS == 1
\* config.REQUESTS_PER_SECOND (20 in config.py), scaled down.
REQUESTS_PER_SECOND == 1
\* config.BATCH_SIZE (500 in config.py), scaled down.
BATCH_SIZE == 2
\* config.SAVE_INTERVAL (1000 in config.py), scaled down.
SAVE_INTERVAL == 2
\* stop_after_attempt(3) of the retry decorator of _download_single.
STOP_AFTER_ATTEMPT == 3
\* The 30 seconds after which add_gifts_to_collection saves, scaled down.
AUTO_SAVE_AFTER == 1

\* The URLs a collection file may hold; TEST_URL is health_check's default.
URLS == {"u1", "u2"}
TEST_URL == "u1"
COLLECTION == "c"

None == "None"
\* What one session.get can end with: an HTTP status, a timeout, a transport
\* error (aiohttp ClientError) or any other exception.
Outcomes == {"200", "404", "500", "timeout", "reset", "other"}
\* Statuses GiftParser._determine_status can give a parsed record ("unknown"
\* behaves as "private" does here: a status that is neither active nor a
\* status of the cache).
GiftStatuses == {"active", "deleted", "private"}
TerminalStatuses == {"active", "deleted", "error", "parse_failed"}

VARIABLES
  pc,               \* position of the main coroutine
  SKIP_404_ERRORS,  \* config flags
  SKIP_TIMEOUT_ERRORS,
  file_urls,        \* content of materials/<collection>.txt
  resume_mode,
  all_urls,         \* process_collection locals
  urls_to_process,
  batch_i,          \* download_with_batching: offset i of the current batch
  all_results,      \* download_with_batching: all_results / results being ingested
  tasks,            \* download_batch: the created tasks, in order
  failed_urls,      \* AsyncDownloader.failed_urls
  semaphore,        \* AsyncDownloader.semaphore: free permits
  holds,            \* tasks inside "async with self.semaphore"
  admitted,         \* tasks inside "async with self.throttler"
  task_logs,        \* Throttler._task_logs, as ages in ticks, oldest first
  window,           \* ages of the admissions of the last second (history)
  processed_count,  \* process_collection counters
  success_count,
  error_count,
  processed_urls,   \* CacheManager
  url_status_cache,
  collection_progress,
  cache_dirty,
  collections_cache, \* DataManager.collections_cache[COLLECTION] by collection name
  clock,            \* logical utcnow() of parse / update stamps
  disk_gifts,       \* the files <name>.json, by collection name
  disk_backup,      \* <name>.json.backup
  disk_processed,   \* processed_urls.txt
  disk_status,      \* url_status_cache.json
  disk_progress,    \* progress.json
  stats,            \* value returned by process_collection (NoStats before)
  running,          \* TelegramGiftsParser.running
  disk_tmp,         \* the temp files <name>.tmp of save_collection, by name
  save_pc,          \* position of a running save_collection or save_cache call
  last_call,        \* the latest call of a store or cache operation, its
                    \* arguments and its return value
  snapshots,        \* the values the in-memory collection has had (kept by
                    \* the component-level actions)
  urls_file_exists, \* whether materials/<collection>.txt exists
  collections,      \* process_all_collections: the names of file_list.txt
  coll_i,           \* process_all_collections: collections handled so far
  collection_results, \* process_all_collections: collection_results
  completed_collections, \* processing_stats['completed_collections']
  last_save_time,   \* DataManager.last_save_time
  saved_at          \* when save_collection last wrote each collection

vars == <<pc, SKIP_404_ERRORS, SKIP_TIMEOUT_ERRORS, file_urls, resume_mode,
          all_urls, urls_to_process, batch_i, all_results, tasks, failed_urls,
          semaphore, holds, admitted, task_logs, window, processed_count,
          success_count, error_count, processed_urls, url_status_cache,
          collection_progress, cache_dirty, collections_cache, clock,
          disk_gifts, disk_backup, disk_processed, disk_status, disk_progress,
          stats, running, disk_tmp, save_pc, last_call, snapshots,
          urls_file_exists, collections, coll_i, collection_results,
          completed_collections,
          last_save_time, saved_at>>

fetcherVars == <<tasks, failed_urls, semaphore, holds, admitted, task_logs, window>>
cacheVars == <<processed_urls, url_status_cache, collection_progress, cache_dirty>>
storeVars == <<collections_cache, clock>>
diskVars == <<disk_gifts, disk_backup, disk_processed, disk_status, disk_progress>>
configVars == <<SKIP_404_ERRORS, SKIP_TIMEOUT_ERRORS, file_urls, resume_mode,
               urls_file_exists>>
\* The loop of process_all_collections.
fullRunVars == <<collections, coll_i, collection_results, completed_collections>>
autoVars == <<last_save_time, saved_at>>
\* State that only the shutdown, crash and component-level actions change.
runVars == <<running, disk_tmp, save_pc, last_call, snapshots>>
localVars == <<all_urls, urls_to_process, batch_i, all_results, processed_count,
               success_count, error_count, stats>>

\* ---------------------------------------------------------------- helpers
RECURSIVE SeqsUpTo(_, _)
SeqsUpTo(S, n) ==
  IF n = 0 THEN {<<>>}
  ELSE LET shorter == SeqsUpTo(S, n - 1)
       IN shorter \cup {Append(s, x) : s \in {q \in shorter : Len(q) = n - 1}, x \in S}

Range(s) == {s[i] : i \in DOMAIN s}

\* How many times x occurs in the sequence s.
Count(s, x) == Cardinality({i \in DOMAIN s : s[i] = x})

Min(a, b) == IF a < b THEN a ELSE b

EmptyMap == [u \in {} |-> None]

\* ------------------------------------------------- AsyncDownloader: one task
\* The tuple (url, html_content, error_message).
Result(u, body, err) == [url |-> u, body |-> body, error |-> err]
NoResult == Result(None, None, None)

Returned(r) == [kind |-> "return", val |-> r, exc |-> None, msg |-> None]
Raised(e, m) == [kind |-> "raise", val |-> NoResult, exc |-> e, msg |-> m]

NewTask(u) ==
  [url |-> u, tpc |-> "acquire", attempt |-> 1, resp |-> None, ret |-> NoResult, exc |-> None]

\* f"Client error: {str(e)}": the text of a 404 raised as ClientResponseError
\* names the status; the other messages are not told apart.
ClientErrorText(m) == IF m = "404" THEN "Client error: 404" ELSE "Client error"

\* The body of the try block, from session.get on, for a response o.
TryBody(u, o) ==
  CASE o = "200" -> Returned(Result(u, "html", None))
    [] o = "404" -> IF SKIP_404_ERRORS
                    THEN Returned(Result(u, None, "404 Not Found"))
                    ELSE Raised("ClientResponseError", "404")
    [] o = "500" -> Raised("ClientResponseError", "HTTP 500")
    [] o = "timeout" -> Raised("TimeoutError", "")  \* str(TimeoutError()) is ''
    [] o = "reset" -> Raised("ClientError", "reset")
    [] OTHER -> Raised("Exception", "unexpected")

ExceptHandlersReraiseClientError(u, r) ==
  IF r.kind = "return" THEN r
  ELSE IF r.exc = "TimeoutError" /\ SKIP_TIMEOUT_ERRORS
       THEN Returned(Result(u, None, "Request timeout"))
       ELSE r

\* The three except clauses of _download_single.
ExceptHandlers(u, r) ==
  IF r.kind = "return" THEN r
  ELSE CASE r.exc = "TimeoutError" ->
              IF SKIP_TIMEOUT_ERRORS
              THEN Returned(Result(u, None, "Request timeout"))
              ELSE r
         [] r.exc \in {"ClientResponseError", "ClientError"} ->
              Returned(Result(u, None, ClientErrorText(r.msg)))
         [] OTHER -> r

\* tenacity: retry while attempts remain, then reraise. resp records the
\* response of the task's latest attempt; the attempt number belongs to the
\* retry call and is gone (0) once the call has ended.
AfterAttempt(task, o, r) ==
  IF r.kind = "return"
  THEN [task EXCEPT !.tpc = "returned", !.attempt = 0, !.resp = o, !.ret = r.val]
  ELSE IF task.attempt < STOP_AFTER_ATTEMPT
       THEN [task EXCEPT !.tpc = "backoff", !.resp = o]
       ELSE [task EXCEPT !.tpc = "raised", !.attempt = 0, !.resp = o, !.exc = r.msg]

SemaphoreFreeAlways == TRUE

\* Semaphore.acquire proceeds only while a permit is free.
SemaphoreFree == semaphore > 0

SemAcquire(t) ==
  /\ tasks[t].tpc = "acquire"
  /\ SemaphoreFree
  /\ semaphore' = semaphore - 1
  /\ holds' = holds \cup {t}
  /\ tasks' = [tasks EXCEPT ![t].tpc = "throttle"]
  /\ UNCHANGED <<pc, runVars, configVars, autoVars, fullRunVars, localVars, failed_urls, admitted, task_logs,
                 window, cacheVars, storeVars, diskVars>>

BurstSize == 50

\* Throttler(rate_limit=config.REQUESTS_PER_SECOND, period=1.0)
ThrottlerRateLimit == REQUESTS_PER_SECOND
ThrottlerPeriod == TicksPerSecond

FlushNothing(log) == log

\* Throttler.flush: drop the entries older than the period.
RECURSIVE Flush(_)
Flush(log) ==
  IF log # <<>> /\ Head(log) > ThrottlerPeriod THEN Flush(Tail(log)) ELSE log

\* Throttler.acquire admits once fewer than rate_limit entries remain.
ThrottlerAdmits(log) == Len(Flush(log)) < ThrottlerRateLimit

ThrottleAdmit(t) ==
  /\ tasks[t].tpc = "throttle"
  /\ ThrottlerAdmits(task_logs)
  /\ task_logs' = Append(Flush(task_logs), 0)
  /\ window' = Append(window, 0)
  /\ admitted' = admitted \cup {t}
  /\ tasks' = [tasks EXCEPT ![t].tpc = "request"]
  /\ UNCHANGED <<pc, runVars, configVars, autoVars, fullRunVars, localVars, failed_urls, semaphore, holds,
                 cacheVars, storeVars, diskVars>>

RespondKeepsSlot(t) ==
  /\ tasks[t].tpc = "request"
  /\ \E o \in Outcomes :
       LET u == tasks[t].url
           r == ExceptHandlers(u, TryBody(u, o))
       IN /\ tasks' = [tasks EXCEPT ![t] = AfterAttempt(tasks[t], o, r)]
          /\ failed_urls' = IF o = "404" THEN failed_urls \cup {u} ELSE failed_urls
  /\ UNCHANGED <<pc, runVars, configVars, autoVars, fullRunVars, localVars, task_logs, window, cacheVars,
                 storeVars, diskVars, semaphore, holds, admitted>>

\* session.get answers (or fails); both context managers exit.
Respond(t) ==
  /\ tasks[t].tpc = "request"
  /\ \E o \in Outcomes :
       LET u == tasks[t].url
           r == ExceptHandlers(u, TryBody(u, o))
       IN /\ tasks' = [tasks EXCEPT ![t] = AfterAttempt(tasks[t], o, r)]
          /\ failed_urls' = IF o = "404" THEN failed_urls \cup {u} ELSE failed_urls
  /\ semaphore' = semaphore + 1
  /\ holds' = holds \ {t}
  /\ admitted' = admitted \ {t}
  /\ UNCHANGED <<pc, runVars, configVars, autoVars, fullRunVars, localVars, task_logs, window, cacheVars,
                 storeVars, diskVars>>

RetryEntryInsideGates == "request"

\* A retry calls _download_single again, from its first line.
RetryEntry == "acquire"

Backoff(t) ==
  /\ tasks[t].tpc = "backoff"
  /\ tasks' = [tasks EXCEPT ![t].tpc = RetryEntry, ![t].attempt = @ + 1]
  /\ UNCHANGED <<pc, runVars, configVars, autoVars, fullRunVars, localVars, failed_urls, semaphore, holds,
                 admitted, task_logs, window, cacheVars, storeVars, diskVars>>

\* Time passes by one tick.
Tick ==
  /\ task_logs' = [i \in DOMAIN task_logs |-> Min(task_logs[i] + 1, ThrottlerPeriod + 1)]
  /\ window' = LET aged == [i \in DOMAIN window |-> window[i] + 1]
               IN SelectSeq(aged, LAMBDA a : a <= TicksPerSecond)
  /\ UNCHANGED <<pc, runVars, configVars, autoVars, fullRunVars, localVars, tasks, failed_urls, semaphore, holds,
                 admitted, cacheVars, storeVars, diskVars>>

\* ------------------------------------------------------------ CacheManager
\* No store or cache operation has been called.
NoCall ==
  [op |-> "none", batch |-> <<>>, ret |-> 0, url |-> None, status |-> None,
   metadata |-> [gift_id |-> None, collection |-> None, error |-> None]]

Metadata(gift_id, collection, error) ==
  [gift_id |-> gift_id, collection |-> collection, error |-> error]
NoMetadata == Metadata(None, None, None)

CacheEntry(status, metadata, at) ==
  [status |-> status, processed_at |-> at, metadata |-> metadata]

IsUrlProcessed(u) == u \in processed_urls

FilterUnprocessedNothing(urls) == urls

FilterUnprocessedReversed(urls) ==
  LET kept == SelectSeq(urls, LAMBDA u : ~IsUrlProcessed(u))
  IN [i \in DOMAIN kept |-> kept[Len(kept) + 1 - i]]

\* filter_unprocessed_urls
FilterUnprocessed(urls) == SelectSeq(urls, LAMBDA u : ~IsUrlProcessed(u))

MarkStatusKeepFirst(cache, u, status, metadata, at) ==
  [x \in DOMAIN cache \cup {u} |->
     IF x \in DOMAIN cache THEN cache[x] ELSE CacheEntry(status, metadata, at)]

\* mark_url_processed: the status map after the call, made at time at.
MarkStatus(cache, u, status, metadata, at) ==
  [x \in DOMAIN cache \cup {u} |->
     IF x = u THEN CacheEntry(status, metadata, at) ELSE cache[x]]

\* A line of processed_urls.txt that cannot be decoded: reading the file
\* raises when it gets there.
BadLine == "?"

\* A url_status_cache.json, and a progress file, that is no JSON document.
CorruptStatusFile ==
  [u \in {BadLine} |->
     [status |-> None, processed_at |-> 0,
      metadata |-> [gift_id |-> None, collection |-> None, error |-> None]]]
CorruptProgressFile ==
  [c \in {BadLine} |->
     [total_urls |-> -1, processed_urls |-> -1, success_count |-> -1,
      error_count |-> -1]]

\* The place of a URL among the sorted lines of processed_urls.txt.
UrlRank(u) == IF u = "u1" THEN 1 ELSE 2

\* _load_url_status_cache and _load_collection_progress: a file that cannot
\* be decoded gives an empty map.
LoadUrlStatusCache == IF disk_status = CorruptStatusFile THEN EmptyMap ELSE disk_status
LoadCollectionProgress ==
  IF disk_progress = CorruptProgressFile THEN EmptyMap ELSE disk_progress

\* load_cache of a new CacheManager. _load_processed_urls has no handler of
\* its own: a bad line, after k good ones, raises into load_cache, which
\* returns False with the lines read so far and the two maps not loaded.
LoadCache(k) ==
  IF BadLine \in disk_processed
  THEN [processed |-> {u \in disk_processed \ {BadLine} : UrlRank(u) <= k},
        status |-> EmptyMap, progress |-> EmptyMap, ok |-> FALSE]
  ELSE [processed |-> disk_processed, status |-> LoadUrlStatusCache,
        progress |-> LoadCollectionProgress, ok |-> TRUE]

\* ------------------------------------------------------------- DataManager
NoTime == 0
Gift(u, id, status, at) ==
  [url |-> u, gift_id |-> id, status |-> status, parsed_at |-> at,
   updated_at |-> NoTime, previous_status |-> None]
\* parse_gift_data returning None.
NoGift == Gift(None, None, None, NoTime)

\* _create_empty_collection
EmptyCollection == [total_gifts |-> 0, processed_gifts |-> 0, gifts |-> <<>>]

\* A file whose content is no complete JSON document.
PartialFile == [total_gifts |-> -1, processed_gifts |-> -1, gifts |-> <<>>]

\* load_collection: the cached collection, else the file if it can be
\* decoded, else a new skeleton.
LoadCollection ==
  IF COLLECTION \in DOMAIN collections_cache THEN collections_cache[COLLECTION]
  ELSE IF COLLECTION \in DOMAIN disk_gifts /\ disk_gifts[COLLECTION] # PartialFile
       THEN disk_gifts[COLLECTION]
       ELSE EmptyCollection

CountActive(gs) == Cardinality({i \in DOMAIN gs : gs[i].status = "active"})

UpsertOneKeepStored(gs, gift, now) ==
  IF \E i \in DOMAIN gs : gs[i].gift_id = gift.gift_id THEN gs ELSE Append(gs, gift)

UpsertOneAppend(gs, gift, now) == Append(gs, gift)

\* The update loop of add_gifts_to_collection for one record.
UpsertOne(gs, gift, now) ==
  IF gift.gift_id = None THEN gs
  ELSE IF \E i \in DOMAIN gs : gs[i].gift_id = gift.gift_id
  THEN LET i == CHOOSE k \in DOMAIN gs :
                  /\ gs[k].gift_id = gift.gift_id
                  /\ \A j \in 1..(k - 1) : gs[j].gift_id # gift.gift_id
       IN IF gs[i] # gift
          THEN [gs EXCEPT ![i] = [gift EXCEPT !.updated_at = now,
                                              !.previous_status = gs[i].status]]
          ELSE gs
  ELSE Append(gs, gift)

\* The loop over the records of the call, in order.
RECURSIVE UpsertAll(_, _, _)
UpsertAll(gs, batch, now) ==
  IF batch = <<>> THEN gs
  ELSE UpsertAll(UpsertOne(gs, Head(batch), now), Tail(batch), now)

\* added_count + updated_count of the loop.
RECURSIVE UpsertCount(_, _, _)
UpsertCount(gs, batch, now) ==
  IF batch = <<>> THEN 0
  ELSE LET g == Head(batch)
           hit == IF g.gift_id = None THEN FALSE
                  ELSE IF \E i \in DOMAIN gs : gs[i].gift_id = g.gift_id
                       THEN LET i == CHOOSE k \in DOMAIN gs :
                                       /\ gs[k].gift_id = g.gift_id
                                       /\ \A j \in 1..(k - 1) : gs[j].gift_id # g.gift_id
                            IN gs[i] # g
                       ELSE TRUE
       IN (IF hit THEN 1 ELSE 0)
            + UpsertCount(UpsertOne(gs, g, now), Tail(batch), now)

\* add_gifts_to_collection(name, batch) up to the counters.
AddGifts(coll, batch, now) ==
  LET gs == UpsertAll(coll.gifts, batch, now)
  IN [total_gifts |-> Len(gs), processed_gifts |-> CountActive(gs), gifts |-> gs]

\* add_gifts_to_collection(name, [gift]), as process_collection calls it.
AddGift(coll, gift, now) == AddGifts(coll, <<gift>>, now)

\* save_collection: what the collection holds once it is written.
Saved(coll) == [coll EXCEPT !.processed_gifts = Len(coll.gifts)]

\* --------------------------------------------------------------- GiftParser
\* The gift id is the collection-number part of the URL.
GiftId(u) == IF u = "u1" THEN "g1" ELSE "g2"

\* parse_gift_data: None, or a record whose status the page decides.
ParseGiftData(u, at) == {NoGift} \cup {Gift(u, GiftId(u), st, at) : st \in GiftStatuses}

\* validate_gift_data: url, gift_id, collection and status are non-empty.
ValidateGiftData(g) == g.url # None /\ g.gift_id # None /\ g.status # None

\* ------------------------------------------------------- CollectionManager
CreateCollectionStats(total, processed, success, errors) ==
  [total_urls |-> total, processed_urls |-> processed,
   successful_parses |-> success, failed_parses |-> errors]
\* process_collection has not returned.
NoStats == CreateCollectionStats(-1, -1, -1, -1)

\* initialize: load_cache, then the health check of the downloader.
Initialize ==
  /\ pc = "init"
  /\ \E k \in 0..Cardinality(URLS) :
       /\ processed_urls' = LoadCache(k).processed
       /\ url_status_cache' = LoadCache(k).status
       /\ collection_progress' = LoadCache(k).progress
  /\ tasks' = <<NewTask(TEST_URL)>>
  /\ pc' = "health"
  /\ UNCHANGED <<runVars, configVars, autoVars, fullRunVars, localVars, failed_urls, semaphore, holds, admitted,
                 task_logs, window, cache_dirty, storeVars, diskVars>>

\* health_check returns (or catches the exception); the session is closed.
HealthCheckDone ==
  /\ pc = "health"
  /\ tasks[1].tpc \in {"returned", "raised"}
  /\ tasks' = <<>>
  /\ pc' = "ready"
  /\ UNCHANGED <<runVars, configVars, autoVars, fullRunVars, localVars, failed_urls, semaphore, holds, admitted,
                 task_logs, window, cacheVars, storeVars, diskVars>>

\* The collection process_collection is called for: the one of the loop of
\* process_all_collections, or the one named on the command line.
CurrentCollection ==
  IF coll_i \in DOMAIN collections THEN collections[coll_i] ELSE COLLECTION

\* load_collection_urls: the URLs of the file, none when there is no file.
\* Only COLLECTION has a URL file.
LoadCollectionUrls ==
  IF urls_file_exists /\ CurrentCollection = COLLECTION THEN file_urls ELSE <<>>

\* process_collection up to the call of download_with_batching.
ProcessCollectionStart ==
  /\ pc = "ready"
  /\ all_urls' = LoadCollectionUrls
  /\ LET urls == IF resume_mode THEN FilterUnprocessed(LoadCollectionUrls)
                 ELSE LoadCollectionUrls
     IN /\ urls_to_process' = urls
        /\ IF LoadCollectionUrls = <<>>
           THEN /\ stats' = CreateCollectionStats(0, 0, 0, 0)
                /\ pc' = "returned"
           ELSE IF urls = <<>>
                THEN /\ stats' = CreateCollectionStats(Len(file_urls), 0, 0,
                                     Len(LoadCollectionUrls) - Len(urls))
                     /\ pc' = "returned"
                ELSE /\ stats' = stats
                     /\ pc' = "batching"
  /\ batch_i' = 0
  /\ all_results' = <<>>
  /\ processed_count' = 0
  /\ success_count' = 0
  /\ error_count' = 0
  /\ UNCHANGED <<runVars, configVars, autoVars, fullRunVars, fetcherVars, cacheVars, storeVars, diskVars>>

BatchUrls == SubSeq(urls_to_process, batch_i + 1, Min(batch_i + BATCH_SIZE, Len(urls_to_process)))

\* download_batch: one task per URL that is not a known failed URL.
CreateTasks(batch) ==
  LET kept == SelectSeq(batch, LAMBDA u : u \notin failed_urls)
  IN [k \in DOMAIN kept |-> NewTask(kept[k])]

DownloadBatch ==
  /\ pc = "batching"
  /\ tasks' = CreateTasks(BatchUrls)
  /\ pc' = "awaiting"
  /\ UNCHANGED <<runVars, configVars, autoVars, fullRunVars, localVars, failed_urls, semaphore, holds, admitted,
                 task_logs, window, cacheVars, storeVars, diskVars>>

AwaitTaskNoCatch(task) ==
  IF task.tpc = "returned" THEN Returned(task.ret) ELSE Raised("Exception", task.exc)

\* "result = await task" inside try / except Exception of download_batch.
AwaitTask(task) ==
  IF task.tpc = "returned" THEN Returned(task.ret)
  ELSE Returned(Result(task.url, None, task.exc))

DownloadBatchReturnMarking ==
  /\ pc = "awaiting"
  /\ \A t \in DOMAIN tasks : tasks[t].tpc \in {"returned", "raised"}
  /\ LET got == [t \in DOMAIN tasks |-> AwaitTask(tasks[t])]
     IN IF \E t \in DOMAIN got : got[t].kind = "raise"
        THEN /\ pc' = "crashed"
             /\ UNCHANGED <<all_results, batch_i, processed_urls>>
        ELSE /\ all_results' = all_results \o [t \in DOMAIN got |-> got[t].val]
             /\ batch_i' = batch_i + BATCH_SIZE
             /\ processed_urls' = processed_urls \cup {got[t].val.url : t \in DOMAIN got}
             /\ pc' = IF batch_i + BATCH_SIZE < Len(urls_to_process)
                      THEN "batching" ELSE "ingest"
  /\ tasks' = <<>>
  /\ UNCHANGED <<runVars, configVars, autoVars, fullRunVars, all_urls, urls_to_process, processed_count,
                 success_count, error_count, stats, failed_urls, semaphore, holds,
                 admitted, task_logs, window, url_status_cache, collection_progress,
                 cache_dirty, storeVars, diskVars>>

\* download_batch returns; download_with_batching goes on or returns.
DownloadBatchReturn ==
  /\ pc = "awaiting"
  /\ \A t \in DOMAIN tasks : tasks[t].tpc \in {"returned", "raised"}
  /\ LET got == [t \in DOMAIN tasks |-> AwaitTask(tasks[t])]
     IN IF \E t \in DOMAIN got : got[t].kind = "raise"
        THEN /\ pc' = "crashed"
             /\ UNCHANGED <<all_results, batch_i>>
        ELSE /\ all_results' = all_results \o [t \in DOMAIN got |-> got[t].val]
             /\ batch_i' = batch_i + BATCH_SIZE
             /\ pc' = IF batch_i + BATCH_SIZE < Len(urls_to_process)
                      THEN "batching" ELSE "ingest"
  /\ tasks' = <<>>
  /\ UNCHANGED <<runVars, configVars, autoVars, fullRunVars, all_urls, urls_to_process, processed_count,
                 success_count, error_count, stats, failed_urls, semaphore, holds,
                 admitted, task_logs, window, cacheVars, storeVars, diskVars>>

SaveCollectionSkipped(coll, file, backup) ==
  [coll |-> coll, file |-> file, backup |-> backup]

\* save_collection: the collection in memory, the file and the backup after it.
SaveCollection(coll, file, backup) ==
  IF COLLECTION \notin DOMAIN coll
  THEN [coll |-> coll, file |-> file, backup |-> backup]
  ELSE LET saved == [c \in {COLLECTION} |-> Saved(coll[COLLECTION])]
       IN [coll |-> saved, file |-> saved,
           backup |-> IF COLLECTION \in DOMAIN file THEN file ELSE backup]

\* save_collection raising inside its try (the temp file cannot be opened):
\* the counters are already set in memory, the backup is already copied, the
\* file stays as it was, and the call returns False.
SaveCollectionFails(coll, file, backup) ==
  IF COLLECTION \notin DOMAIN coll
  THEN [coll |-> coll, file |-> file, backup |-> backup]
  ELSE [coll |-> [c \in {COLLECTION} |-> Saved(coll[COLLECTION])],
        file |-> file,
        backup |-> IF COLLECTION \in DOMAIN file THEN file ELSE backup]

\* A call of save_collection whose return value the caller ignores: ok tells
\* whether the write succeeds.
TrySaveCollection(ok, coll, file, backup) ==
  IF ok THEN SaveCollection(coll, file, backup)
  ELSE SaveCollectionFails(coll, file, backup)

FailureStatusAlwaysError(error) == "error"

\* The cache status of a result without a body.
FailureStatus(error) == IF error = "404 Not Found" THEN "deleted" ELSE "error"

\* One iteration of the result loop of process_collection, the periodic save
\* included; ok tells whether the writes of save_collection succeed.
Ingest(ok) ==
  /\ processed_count < Len(all_results)
  /\ LET r == all_results[processed_count + 1]
         n == processed_count + 1
     IN /\ processed_count' = n
        /\ \E g \in (IF r.body # None THEN ParseGiftData(r.url, clock) ELSE {NoGift}),
              elapsed \in BOOLEAN :
             LET valid == r.body # None /\ g # NoGift /\ ValidateGiftData(g)
                 added == IF valid
                          THEN [c \in {COLLECTION} |-> AddGift(LoadCollection, g, clock)]
                          ELSE collections_cache
                 \* add_gifts_to_collection saves when the last save is old
                 auto == IF valid /\ elapsed
                         THEN TrySaveCollection(ok, added, disk_gifts, disk_backup)
                         ELSE [coll |-> added, file |-> disk_gifts, backup |-> disk_backup]
                 status == IF valid THEN "active"
                           ELSE IF r.body # None THEN "parse_failed"
                           ELSE FailureStatus(r.error)
                 metadata == IF valid THEN Metadata(g.gift_id, COLLECTION, None)
                             ELSE IF r.body # None THEN NoMetadata
                             ELSE Metadata(None, None, r.error)
                 marked == MarkStatus(url_status_cache, r.url, status, metadata, clock)
                 periodic == n % SAVE_INTERVAL = 0
                 final == IF periodic
                          THEN TrySaveCollection(ok, auto.coll, auto.file, auto.backup)
                          ELSE auto
             IN /\ (valid \/ ~elapsed)
                /\ (ok \/ periodic \/ (valid /\ elapsed))
                /\ clock' = IF r.body # None THEN clock + 1 ELSE clock
                /\ success_count' = IF valid THEN success_count + 1 ELSE success_count
                /\ error_count' = IF valid THEN error_count ELSE error_count + 1
                /\ collections_cache' = final.coll
                /\ disk_gifts' = final.file
                /\ disk_backup' = final.backup
                /\ processed_urls' = processed_urls \cup {r.url}
                /\ url_status_cache' = marked
                /\ cache_dirty' = ~periodic
                /\ disk_processed' = IF periodic THEN processed_urls \cup {r.url}
                                     ELSE disk_processed
                /\ disk_status' = IF periodic THEN marked ELSE disk_status
                /\ disk_progress' = IF periodic THEN collection_progress
                                    ELSE disk_progress
  /\ UNCHANGED <<pc, runVars, configVars, autoVars, fullRunVars, all_urls, urls_to_process, batch_i, all_results,
                 stats, fetcherVars, collection_progress>>

IngestResult ==
  /\ pc = "ingest"
  /\ Ingest(TRUE)

\* The same iteration when save_collection fails: _periodic_save and
\* add_gifts_to_collection go on whatever it returns.
IngestResultSaveFails ==
  /\ pc = "ingest"
  /\ Ingest(FALSE)

\* The final save of process_collection, the progress update and the return;
\* ok tells whether the write of save_collection succeeds.
FinalSave(ok) ==
  /\ processed_count = Len(all_results)
  /\ LET final == TrySaveCollection(ok, collections_cache, disk_gifts, disk_backup)
     IN /\ collections_cache' = final.coll
        /\ disk_gifts' = final.file
        /\ disk_backup' = final.backup
  /\ disk_processed' = IF cache_dirty THEN processed_urls ELSE disk_processed
  /\ disk_status' = IF cache_dirty THEN url_status_cache ELSE disk_status
  /\ disk_progress' = IF cache_dirty THEN collection_progress ELSE disk_progress
  /\ collection_progress' =
       [c \in DOMAIN collection_progress \cup {COLLECTION} |->
          [total_urls |-> Len(all_urls), processed_urls |-> processed_count,
           success_count |-> success_count, error_count |-> error_count]]
  /\ cache_dirty' = TRUE
  /\ stats' = CreateCollectionStats(Len(all_urls), processed_count, success_count,
                                    error_count)
  /\ pc' = "returned"
  /\ UNCHANGED <<runVars, configVars, autoVars, fullRunVars, all_urls, urls_to_process, batch_i, all_results,
                 processed_count, success_count, error_count, fetcherVars,
                 processed_urls, url_status_cache, clock>>

Finish ==
  /\ pc = "ingest"
  /\ FinalSave(TRUE)

\* The same when the final save_collection fails: its return value is ignored.
FinishSaveFails ==
  /\ pc = "ingest"
  /\ FinalSave(FALSE)

\* ------------------------------------------------------------ specification
InitCommon ==
  /\ pc = "init"
  /\ all_urls = <<>>
  /\ urls_to_process = <<>>
  /\ batch_i = 0
  /\ all_results = <<>>
  /\ tasks = <<>>
  /\ failed_urls = {}
  /\ semaphore = MAX_CONCURRENT_REQUESTS
  /\ holds = {}
  /\ admitted = {}
  /\ task_logs = <<>>
  /\ window = <<>>
  /\ processed_count = 0
  /\ success_count = 0
  /\ error_count = 0
  /\ processed_urls = {}
  /\ url_status_cache = EmptyMap
  /\ collection_progress = EmptyMap
  /\ cache_dirty = FALSE
  /\ collections_cache = EmptyMap
  /\ disk_backup = EmptyMap
  /\ disk_progress = EmptyMap
  /\ stats = NoStats
  /\ running = TRUE
  /\ disk_tmp = EmptyMap
  /\ save_pc = "idle"
  /\ last_call = NoCall
  /\ last_save_time = 0
  /\ saved_at = EmptyMap

\* No full run is under way.
NoFullRun ==
  /\ collections = <<>>
  /\ coll_i = 0
  /\ collection_results = EmptyMap
  /\ completed_collections = 0

\* A first run: no cache files and no collection file. SKIP_TIMEOUT_ERRORS
\* keeps its default (from_env never overrides it); SKIP_404_ERRORS takes
\* either setting.
Init ==
  /\ InitCommon
  /\ NoFullRun
  /\ urls_file_exists = TRUE
  /\ file_urls \in SeqsUpTo(URLS, MaxUrls)
  /\ clock = 1
  /\ snapshots = {}
  /\ SKIP_404_ERRORS \in BOOLEAN
  /\ SKIP_TIMEOUT_ERRORS = FALSE
  /\ resume_mode = TRUE
  /\ disk_processed = {}
  /\ disk_status = EmptyMap
  /\ disk_gifts = EmptyMap

\* What an earlier run left in the cache files for a URL it finished with
\* status st.
PersistedEntry(u, st) ==
  CacheEntry(st, CASE st = "active" -> Metadata(GiftId(u), COLLECTION, None)
                   [] st = "deleted" -> Metadata(None, None, "404 Not Found")
                   [] st = "error" -> Metadata(None, None, "")
                   [] OTHER -> NoMetadata,
             NoTime)

\* The collection file of that earlier run: one record per active URL.
PersistedCollection(status) ==
  LET active == SelectSeq(<<"u1", "u2">>,
                          LAMBDA u : u \in DOMAIN status /\ status[u] = "active")
      gs == [i \in DOMAIN active |-> Gift(active[i], GiftId(active[i]), "active", 0)]
  IN IF active = <<>> THEN EmptyMap
     ELSE [c \in {COLLECTION} |->
             [total_gifts |-> Len(gs), processed_gifts |-> Len(gs), gifts |-> gs]]

\* A later run in resume mode (the default of process_collection): the
\* files of an earlier run are on disk, the flags have their defaults.
InitResume ==
  /\ InitCommon
  /\ NoFullRun
  /\ urls_file_exists = TRUE
  /\ file_urls \in SeqsUpTo(URLS, MaxUrls)
  /\ clock = 1
  /\ snapshots = {}
  /\ SKIP_404_ERRORS = TRUE
  /\ SKIP_TIMEOUT_ERRORS = FALSE
  /\ resume_mode = TRUE
  /\ \E done \in SUBSET URLS :
       \E status \in [done -> TerminalStatuses] :
         /\ disk_processed = done
         /\ disk_status = [u \in done |-> PersistedEntry(u, status[u])]
         /\ disk_gifts = PersistedCollection(status)

TaskStep ==
  \E t \in DOMAIN tasks :
    \/ SemAcquire(t)
    \/ ThrottleAdmit(t)
    \/ Respond(t)
    \/ Backoff(t)

Next ==
  \/ Initialize
  \/ HealthCheckDone
  \/ ProcessCollectionStart
  \/ DownloadBatch
  \/ DownloadBatchReturn
  \/ IngestResult
  \/ Finish
  \/ TaskStep
  \/ Tick

Spec == Init /\ [][Next]_vars

SpecResume == InitResume /\ [][Next]_vars

\* ------------------------------------------------ the run and its shutdown
\* run_single_collection around the pipeline: signals, a failure in the
\* result loop, failing writes of save_collection, and the cleanup of the
\* finally clause.

\* _signal_handler: SIGINT or SIGTERM arrives while the run is under way.
Signal ==
  /\ pc \notin {"done", "failed"}
  /\ running
  /\ running' = FALSE
  /\ UNCHANGED <<pc, disk_tmp, save_pc, last_call, snapshots, configVars, autoVars, fullRunVars, localVars,
                 fetcherVars, cacheVars, storeVars, diskVars>>

\* An exception raised while the result loop handles its next result leaves
\* process_collection and reaches "except Exception" of run_single_collection.
Abort ==
  /\ pc = "ingest"
  /\ processed_count < Len(all_results)
  /\ pc' = "aborted"
  /\ UNCHANGED <<runVars, configVars, autoVars, fullRunVars, localVars, fetcherVars, cacheVars, storeVars,
                 diskVars>>

\* The finally clause: cleanup() closes the session and force-saves the cache;
\* the run returns True after a normal return and False after a failure.
Cleanup ==
  /\ pc \in {"returned", "aborted", "crashed"}
  /\ disk_processed' = processed_urls
  /\ disk_status' = url_status_cache
  /\ disk_progress' = collection_progress
  /\ cache_dirty' = FALSE
  /\ pc' = IF pc = "returned" THEN "done" ELSE "failed"
  /\ UNCHANGED <<runVars, configVars, autoVars, fullRunVars, localVars, fetcherVars, processed_urls,
                 url_status_cache, collection_progress, storeVars, disk_gifts,
                 disk_backup>>

\* A first run with the default flags.
InitRun ==
  /\ InitCommon
  /\ NoFullRun
  /\ urls_file_exists \in BOOLEAN
  /\ file_urls \in (IF urls_file_exists THEN SeqsUpTo(URLS, MaxUrls) ELSE {<<>>})
  /\ clock = 1
  /\ snapshots = {}
  /\ SKIP_404_ERRORS = TRUE
  /\ SKIP_TIMEOUT_ERRORS = FALSE
  /\ resume_mode = TRUE
  /\ disk_processed = {}
  /\ disk_status = EmptyMap
  /\ disk_gifts = EmptyMap

NextRun ==
  \/ Initialize
  \/ HealthCheckDone
  \/ ProcessCollectionStart
  \/ DownloadBatch
  \/ DownloadBatchReturn
  \/ IngestResult
  \/ IngestResultSaveFails
  \/ Finish
  \/ FinishSaveFails
  \/ TaskStep
  \/ Tick
  \/ Signal
  \/ Abort
  \/ Cleanup

SpecRun == InitRun /\ [][NextRun]_vars

\* --------------------------------------- DataManager, operation by operation
\* The operations of the collection store called in any order, with crashes
\* of the process and failing reads and writes.
Call(op, batch, ret, u, status, metadata) ==
  [op |-> op, batch |-> batch, ret |-> ret, url |-> u, status |-> status,
   metadata |-> metadata]

\* The records a caller may pass: one gift with either status, another gift.
StoreRecords ==
  {Gift(TEST_URL, GiftId(TEST_URL), st, 1) : st \in {"active", "deleted"}}
    \cup {Gift(u, GiftId(u), "active", 1) : u \in URLS}

Batches == SeqsUpTo(StoreRecords, MaxBatch)

\* add_gifts_to_collection(COLLECTION, batch), the save_collection call at its
\* end (made when the last save is more than 30 s old) included.
AddGiftsToCollection ==
  /\ clock <= MaxClock
  /\ \E batch \in Batches, elapsed \in BOOLEAN :
       IF batch = <<>>
       THEN /\ ~elapsed
            /\ last_call' = Call("add", batch, 0, None, None, NoMetadata)
            /\ UNCHANGED <<collections_cache, disk_gifts, disk_backup, snapshots, clock>>
       ELSE LET coll == LoadCollection
                added == [c \in {COLLECTION} |-> AddGifts(coll, batch, clock)]
                auto == IF elapsed
                        THEN SaveCollection(added, disk_gifts, disk_backup)
                        ELSE [coll |-> added, file |-> disk_gifts, backup |-> disk_backup]
            IN /\ elapsed => save_pc = "idle"
               /\ collections_cache' = auto.coll
               /\ disk_gifts' = auto.file
               /\ disk_backup' = auto.backup
               /\ snapshots' = IF save_pc = "idle" THEN snapshots
                               ELSE snapshots \cup {added[COLLECTION]}
               /\ clock' = clock + 1
               /\ last_call' = Call("add", batch, UpsertCount(coll.gifts, batch, clock),
                                    None, None, NoMetadata)
  /\ UNCHANGED <<pc, configVars, autoVars, fullRunVars, localVars, fetcherVars, cacheVars, running,
                 disk_tmp, save_pc, disk_processed, disk_status, disk_progress>>

\* load_collection(COLLECTION) of a collection that is not cached yet.
LoadCollectionCall ==
  /\ COLLECTION \notin DOMAIN collections_cache
  /\ collections_cache' = [c \in {COLLECTION} |-> LoadCollection]
  /\ last_call' = Call("load", <<>>, 0, None, None, NoMetadata)
  /\ UNCHANGED <<pc, configVars, autoVars, fullRunVars, localVars, fetcherVars, cacheVars, running, clock,
                 diskVars, disk_tmp, save_pc, snapshots>>

\* load_collection when reading the existing file raises: the exception is
\* logged and a new empty collection is cached.
LoadFails ==
  /\ COLLECTION \notin DOMAIN collections_cache
  /\ COLLECTION \in DOMAIN disk_gifts
  /\ collections_cache' = [c \in {COLLECTION} |-> EmptyCollection]
  /\ last_call' = Call("load", <<>>, 0, None, None, NoMetadata)
  /\ UNCHANGED <<pc, configVars, autoVars, fullRunVars, localVars, fetcherVars, cacheVars, running, clock,
                 diskVars, disk_tmp, save_pc, snapshots>>

\* save_collection(COLLECTION) of a cached collection, from the lock to the
\* rename.
SaveCollectionCall ==
  /\ save_pc = "idle"
  /\ COLLECTION \in DOMAIN collections_cache
  /\ LET saved == SaveCollection(collections_cache, disk_gifts, disk_backup)
     IN /\ collections_cache' = saved.coll
        /\ disk_gifts' = saved.file
        /\ disk_backup' = saved.backup
  /\ last_call' = Call("save", <<>>, 1, None, None, NoMetadata)
  /\ UNCHANGED <<pc, configVars, autoVars, fullRunVars, localVars, fetcherVars, cacheVars, running, clock,
                 disk_tmp, save_pc, snapshots, disk_processed, disk_status,
                 disk_progress>>

\* The process dies and is started again: memory is lost, the files stay.
Crash ==
  /\ COLLECTION \in DOMAIN collections_cache \/ save_pc # "idle"
  /\ collections_cache' = EmptyMap
  /\ save_pc' = "idle"
  /\ snapshots' = {}
  /\ last_call' = NoCall
  /\ UNCHANGED <<pc, configVars, autoVars, fullRunVars, localVars, fetcherVars, cacheVars, running, clock,
                 diskVars, disk_tmp>>

\* An empty output directory or the file of an earlier run (unique ids), at
\* time now.
InitStoreAt(now) ==
  /\ InitCommon
  /\ NoFullRun
  /\ urls_file_exists = TRUE
  /\ clock = now
  /\ SKIP_404_ERRORS = TRUE
  /\ SKIP_TIMEOUT_ERRORS = FALSE
  /\ resume_mode = TRUE
  /\ file_urls = <<>>
  /\ snapshots = {}
  /\ disk_processed = {}
  /\ disk_status = EmptyMap
  /\ \E done \in SUBSET URLS :
       disk_gifts = PersistedCollection([u \in done |-> "active"])

InitStore == InitStoreAt(1)

NextStore ==
  \/ AddGiftsToCollection
  \/ LoadCollectionCall
  \/ LoadFails
  \/ SaveCollectionCall
  \/ Crash

SpecStore == InitStore /\ [][NextStore]_vars

\* ------------------------------------------ save_collection, step by step
\* save_collection up to the opening of the temp file: the lock is taken,
\* the counters are set, the existing file is copied to the backup.
SaveStart ==
  /\ save_pc = "idle"
  /\ COLLECTION \in DOMAIN collections_cache
  /\ collections_cache' = [c \in {COLLECTION} |-> Saved(collections_cache[COLLECTION])]
  /\ snapshots' = {Saved(collections_cache[COLLECTION])}
  /\ disk_backup' = IF COLLECTION \in DOMAIN disk_gifts THEN disk_gifts ELSE disk_backup
  /\ save_pc' = "open"
  /\ last_call' = Call("save", <<>>, 0, None, None, NoMetadata)
  /\ UNCHANGED <<pc, configVars, autoVars, fullRunVars, localVars, fetcherVars, cacheVars, running, clock,
                 disk_gifts, disk_tmp, disk_processed, disk_status, disk_progress>>

OpenedInPlace(file, tmp) ==
  [file |-> [c \in {COLLECTION} |-> PartialFile], tmp |-> tmp]

\* aiofiles.open(temp_file, 'w'): the file <name>.tmp exists and is empty;
\* the file <name>.json is not touched.
OpenedTemp(file, tmp) ==
  [file |-> file, tmp |-> [c \in {COLLECTION} |-> PartialFile]]

SaveOpenTemp ==
  /\ save_pc = "open"
  /\ disk_gifts' = OpenedTemp(disk_gifts, disk_tmp).file
  /\ disk_tmp' = OpenedTemp(disk_gifts, disk_tmp).tmp
  /\ save_pc' = "write"
  /\ UNCHANGED <<pc, configVars, autoVars, fullRunVars, localVars, fetcherVars, cacheVars, storeVars, running,
                 disk_backup, disk_processed, disk_status, disk_progress, last_call,
                 snapshots>>

\* json.dumps of the collection as it is now, written and closed.
SaveWriteTemp ==
  /\ save_pc = "write"
  /\ disk_tmp' = [c \in {COLLECTION} |-> collections_cache[COLLECTION]]
  /\ save_pc' = "rename"
  /\ UNCHANGED <<pc, configVars, autoVars, fullRunVars, localVars, fetcherVars, cacheVars, storeVars, running,
                 diskVars, last_call, snapshots>>

\* temp_file.rename(collection_file); save_collection returns True.
SaveRename ==
  /\ save_pc = "rename"
  /\ disk_gifts' = disk_tmp
  /\ disk_tmp' = EmptyMap
  /\ save_pc' = "idle"
  /\ snapshots' = {}
  /\ last_call' = Call("save", <<>>, 1, None, None, NoMetadata)
  /\ UNCHANGED <<pc, configVars, autoVars, fullRunVars, localVars, fetcherVars, cacheVars, storeVars, running,
                 disk_backup, disk_processed, disk_status, disk_progress>>

SaveFailsLeavesPartial ==
  /\ save_pc \in {"open", "write", "rename"}
  /\ save_pc' = "idle"
  /\ snapshots' = {}
  /\ last_call' = Call("save", <<>>, 0, None, None, NoMetadata)
  /\ disk_gifts' = [c \in {COLLECTION} |-> PartialFile]
  /\ UNCHANGED <<pc, configVars, autoVars, fullRunVars, localVars, fetcherVars, cacheVars, storeVars, running,
                 disk_backup, disk_processed, disk_status, disk_progress, disk_tmp>>

\* Opening the temp file, writing it or renaming it raises: save_collection
\* logs the exception and returns False.
SaveFails ==
  /\ save_pc \in {"open", "write", "rename"}
  /\ save_pc' = "idle"
  /\ snapshots' = {}
  /\ last_call' = Call("save", <<>>, 0, None, None, NoMetadata)
  /\ UNCHANGED <<pc, configVars, autoVars, fullRunVars, localVars, fetcherVars, cacheVars, storeVars, running,
                 diskVars, disk_tmp>>

\* As InitStore, with time left for one add_gifts_to_collection call.
InitSave == InitStoreAt(MaxClock)

NextSave ==
  \/ AddGiftsToCollection
  \/ LoadCollectionCall
  \/ SaveStart
  \/ SaveOpenTemp
  \/ SaveWriteTemp
  \/ SaveRename
  \/ SaveFails
  \/ Crash

SpecSave == InitSave /\ [][NextSave]_vars

\* --------------------------------------- CacheManager, operation by operation
\* mark_url_processed called any number of times.

\* The metadata arguments of mark_url_processed: none (stored as {}), the
\* record of an active URL, an error text.
MarkMetadata == {NoMetadata, Metadata("g1", COLLECTION, None), Metadata(None, None, "Client error")}

\* mark_url_processed(u, status, metadata); utcnow() has or has not moved on
\* since the call before.
MarkUrlProcessed ==
  /\ clock <= MaxClock
  /\ \E u \in URLS, status \in TerminalStatuses, metadata \in MarkMetadata,
        dt \in {0, 1} :
       /\ processed_urls' = processed_urls \cup {u}
       /\ url_status_cache' = MarkStatus(url_status_cache, u, status, metadata, clock + dt)
       /\ clock' = clock + dt
       /\ last_call' = Call("mark", <<>>, 0, u, status, metadata)
  /\ cache_dirty' = TRUE
  /\ UNCHANGED <<pc, configVars, autoVars, fullRunVars, localVars, fetcherVars, collection_progress,
                 collections_cache, diskVars, running, disk_tmp, save_pc, snapshots>>

\* A new CacheManager: nothing marked, no cache files.
InitCache ==
  /\ InitCommon
  /\ NoFullRun
  /\ urls_file_exists = TRUE
  /\ clock = 1
  /\ SKIP_404_ERRORS = TRUE
  /\ SKIP_TIMEOUT_ERRORS = FALSE
  /\ resume_mode = TRUE
  /\ file_urls = <<>>
  /\ snapshots = {}
  /\ disk_processed = {}
  /\ disk_status = EmptyMap
  /\ disk_gifts = EmptyMap

NextCache == MarkUrlProcessed

SpecCache == InitCache /\ [][NextCache]_vars

\* ------------------------------------------------- maintenance of the cache
\* The commands clean_cache and rebuild_cache and a load_cache, each in a new
\* process, over the files that earlier runs have left and that may since
\* have been lost or damaged.

\* The collection file of an earlier run: one record per URL it has marked
\* active, with the status the page gave the record.
PersistedRecords(recstatus) ==
  LET active == SelectSeq(<<"u1", "u2">>, LAMBDA u : u \in DOMAIN recstatus)
      gs == [i \in DOMAIN active |->
               Gift(active[i], GiftId(active[i]), recstatus[active[i]], 0)]
  IN IF active = <<>> THEN EmptyMap
     ELSE [c \in {COLLECTION} |->
             [total_gifts |-> Len(gs), processed_gifts |-> Len(gs), gifts |-> gs]]

InitMaint ==
  /\ InitCommon
  /\ NoFullRun
  /\ urls_file_exists = TRUE
  /\ file_urls = <<>>
  /\ clock = 1
  /\ snapshots = {}
  /\ SKIP_404_ERRORS = TRUE
  /\ SKIP_TIMEOUT_ERRORS = FALSE
  /\ resume_mode = TRUE
  /\ \E done \in SUBSET URLS :
       \E status \in [done -> TerminalStatuses] :
         \E recstatus \in [{u \in done : status[u] = "active"} -> GiftStatuses] :
           /\ disk_processed = done
           /\ disk_status = [u \in done |-> PersistedEntry(u, status[u])]
           /\ disk_gifts = PersistedRecords(recstatus)

\* One of the three cache files is deleted, or its content is damaged.
DamageCacheFile ==
  /\ \E f \in {"processed", "status", "progress"}, how \in {"lost", "corrupt"} :
       /\ disk_processed' =
            IF f # "processed" THEN disk_processed
            ELSE IF how = "lost" THEN {} ELSE disk_processed \cup {BadLine}
       /\ disk_status' =
            IF f # "status" THEN disk_status
            ELSE IF how = "lost" THEN EmptyMap ELSE CorruptStatusFile
       /\ disk_progress' =
            IF f # "progress" THEN disk_progress
            ELSE IF how = "lost" THEN EmptyMap ELSE CorruptProgressFile
  /\ last_call' = Call("damage", <<>>, 0, None, None, NoMetadata)
  /\ UNCHANGED <<pc, configVars, autoVars, fullRunVars, localVars, fetcherVars, cacheVars,
                 storeVars, disk_gifts, disk_backup, running, disk_tmp, save_pc,
                 snapshots>>

\* load_cache of a new CacheManager; ret is 1 for True and 0 for False.
LoadCacheCall ==
  /\ \E k \in 0..Cardinality(URLS) :
       /\ processed_urls' = LoadCache(k).processed
       /\ url_status_cache' = LoadCache(k).status
       /\ collection_progress' = LoadCache(k).progress
       /\ last_call' = Call("load_cache", <<>>, IF LoadCache(k).ok THEN 1 ELSE 0,
                            None, None, NoMetadata)
  /\ cache_dirty' = FALSE
  /\ collections_cache' = EmptyMap
  /\ UNCHANGED <<pc, configVars, autoVars, fullRunVars, localVars, fetcherVars, clock, diskVars,
                 running, disk_tmp, save_pc, snapshots>>

\* The metadata rebuild_cache_from_collections gives an entry.
RebuiltMetadata(gift) ==
  [gift_id |-> gift.gift_id, collection |-> COLLECTION, parsed_at |-> gift.parsed_at]

RebuildMarksAllActive(gs, at) ==
  [u \in {gs[i].url : i \in DOMAIN gs} \ {None} |->
     LET i == CHOOSE j \in DOMAIN gs :
                gs[j].url = u /\ \A l \in DOMAIN gs : gs[l].url = u => l <= j
     IN CacheEntry("active", RebuiltMetadata(gs[i]), at)]

\* The status map after rebuild_cache_from_collections has marked the records
\* gs in order: a URL that several records carry keeps the mark of the last.
RebuildMarks(gs, at) ==
  [u \in {gs[i].url : i \in DOMAIN gs} \ {None} |->
     LET i == CHOOSE j \in DOMAIN gs :
                gs[j].url = u /\ \A l \in DOMAIN gs : gs[l].url = u => l <= j
     IN CacheEntry(gs[i].status, RebuiltMetadata(gs[i]), at)]

\* The command rebuild_cache in a new process: rebuild_cache_from_collections
\* with a new DataManager, then save_cache(force=True). ret is the count that
\* rebuild returns.
RebuildCacheCommand ==
  /\ LET loaded == IF COLLECTION \in DOMAIN disk_gifts
                   THEN [c \in {COLLECTION} |-> disk_gifts[COLLECTION]]
                   ELSE EmptyMap
         gs == IF COLLECTION \in DOMAIN disk_gifts
               THEN disk_gifts[COLLECTION].gifts ELSE <<>>
         marks == RebuildMarks(gs, clock)
     IN /\ collections_cache' = loaded
        /\ url_status_cache' = marks
        /\ processed_urls' = DOMAIN marks
        /\ disk_status' = marks
        /\ disk_processed' = DOMAIN marks
        /\ last_call' = Call("rebuild", <<>>,
                             Cardinality({i \in DOMAIN gs : gs[i].url # None}),
                             None, None, NoMetadata)
  /\ collection_progress' = EmptyMap
  /\ disk_progress' = EmptyMap
  /\ cache_dirty' = FALSE
  /\ UNCHANGED <<pc, configVars, autoVars, fullRunVars, localVars, fetcherVars, clock, disk_gifts,
                 disk_backup, running, disk_tmp, save_pc, snapshots>>

\* The instants of utcnow(): InstantsPerSecond of them in a second, the first
\* of a second with microsecond 0.
InstantsPerSecond == 2

\* isoformat() + 'Z' of instant a is less, as a string, than that of instant
\* b. isoformat() leaves the fraction out when the microsecond is 0, and
\* '.' sorts before 'Z'.
IsoLess(a, b) ==
  LET sa == a \div InstantsPerSecond
      sb == b \div InstantsPerSecond
  IN IF sa # sb THEN sa < sb
     ELSE /\ a % InstantsPerSecond # 0
          /\ \/ b % InstantsPerSecond = 0
             \/ a % InstantsPerSecond < b % InstantsPerSecond

\* cleanup_old_cache_entries: the entries whose processed_at string is less
\* than the cutoff string leave the status map and the processed set.
CleanupOld(cache, cutoff) ==
  [u \in {x \in DOMAIN cache : ~IsoLess(cache[x].processed_at, cutoff)} |-> cache[u]]

\* The command clean_cache in a new process: load_cache,
\* cleanup_old_cache_entries(30), save_cache(force=True).
CleanCacheCommand ==
  /\ \E k \in 0..Cardinality(URLS), cutoff \in 0..clock :
       LET loaded == LoadCache(k)
           kept == CleanupOld(loaded.status, cutoff)
           gone == DOMAIN loaded.status \ DOMAIN kept
       IN /\ url_status_cache' = kept
          /\ processed_urls' = loaded.processed \ gone
          /\ collection_progress' = loaded.progress
          /\ disk_status' = kept
          /\ disk_processed' = loaded.processed \ gone
          /\ disk_progress' = loaded.progress
  /\ last_call' = Call("clean", <<>>, 0, None, None, NoMetadata)
  /\ cache_dirty' = FALSE
  /\ collections_cache' = EmptyMap
  /\ UNCHANGED <<pc, configVars, autoVars, fullRunVars, localVars, fetcherVars, clock, disk_gifts,
                 disk_backup, running, disk_tmp, save_pc, snapshots>>

NextMaint ==
  \/ DamageCacheFile
  \/ LoadCacheCall
  \/ RebuildCacheCommand
  \/ CleanCacheCommand

SpecMaint == InitMaint /\ [][NextMaint]_vars

\* ------------------------------------------------------------------ claims
\* C1. Totality: once process_collection has returned, every URL of the
\* dispatched (filtered) list has an entry in the status map of the resume
\* cache, and its status is one of active, deleted, error, parse_failed.
C1_Totality ==
  pc = "returned" =>
    \A u \in Range(urls_to_process) :
      /\ u \in DOMAIN url_status_cache
      /\ url_status_cache[u].status \in TerminalStatuses

\* C2. download_with_batching returns exactly one (url, body, error) tuple
\* for each submitted URL, known failed URLs included, and in each tuple
\* exactly one of body and error is non-null.
C2_OneResultPerUrl ==
  pc = "ingest" =>
    /\ \A u \in URLS : Count([i \in DOMAIN all_results |-> all_results[i].url], u)
                         = Count(urls_to_process, u)
    /\ \A i \in DOMAIN all_results :
         (all_results[i].body = None) # (all_results[i].error = None)

\* C3. Concurrency bound: the number of attempts, first or retry, of any
\* batch that hold the semaphore never exceeds MAX_CONCURRENT_REQUESTS.
C3_ConcurrencyBound == Cardinality(holds) <= MAX_CONCURRENT_REQUESTS

\* A retry attempt holds the last permit while another task of the batch
\* waits for one.
C3_Witness ==
  \E t1 \in DOMAIN tasks, t2 \in DOMAIN tasks :
    /\ t1 # t2
    /\ t1 \in holds
    /\ tasks[t1].attempt > 1
    /\ Cardinality(holds) = MAX_CONCURRENT_REQUESTS
    /\ tasks[t2].tpc = "acquire"

\* C4. Rate bound: the attempts admitted by the rate limiter within the last
\* second, over all tasks and all retries, number at most
\* REQUESTS_PER_SECOND.
C4_RateBound == Len(window) <= REQUESTS_PER_SECOND

\* A retry attempt waits at the rate limiter while the window is full.
C4_Witness ==
  \E t \in DOMAIN tasks :
    /\ tasks[t].tpc = "throttle"
    /\ tasks[t].attempt > 1
    /\ ~ThrottlerAdmits(task_logs)
    /\ Len(window) = REQUESTS_PER_SECOND

\* C5. Every network call of _download_single, first attempt or retry, is
\* issued while the attempt holds a semaphore slot and an admission of the
\* rate limiter.
C5_BothAdmissions ==
  \A t \in DOMAIN tasks :
    tasks[t].tpc = "request" => t \in holds /\ t \in admitted

\* A retry attempt is at session.get, holding both admissions.
C5_Witness ==
  \E t \in DOMAIN tasks :
    /\ tasks[t].tpc = "request"
    /\ tasks[t].attempt > 1
    /\ t \in holds
    /\ t \in admitted

\* The step in which the attempt of task t at session.get ends the download
\* of its URL (the task returns or raises) on the response o.
EndsOn(t, o) ==
  /\ t \in DOMAIN tasks
  /\ t \in DOMAIN tasks'
  /\ tasks[t].tpc = "request"
  /\ tasks'[t].tpc \in {"returned", "raised"}
  /\ tasks'[t].resp = o

\* C6. An attempt that fails with a timeout or with a transport error
\* (connection reset) is retried, up to STOP_AFTER_ATTEMPT attempts for the
\* URL: the download ends on such a failure only at the last attempt, and a
\* success on a later attempt yields a body.
C6_TransientRetried ==
  [][\A t \in DOMAIN tasks :
       /\ EndsOn(t, "timeout") \/ EndsOn(t, "reset")
            => tasks[t].attempt = STOP_AFTER_ATTEMPT
       /\ EndsOn(t, "200")
            => tasks'[t].tpc = "returned" /\ tasks'[t].ret.body # None]_vars

\* C7. An attempt that receives an HTTP status other than 2xx and 404 (500)
\* is retried, up to STOP_AFTER_ATTEMPT attempts for the URL: the download
\* ends on such a status only at the last attempt.
C7_HttpErrorRetried ==
  [][\A t \in DOMAIN tasks :
       EndsOn(t, "500") => tasks[t].attempt = STOP_AFTER_ATTEMPT]_vars

\* C8. A 404 response ends the download with that attempt, under either
\* setting of SKIP_404_ERRORS: the task returns a result without a body and
\* is not retried; with SKIP_404_ERRORS set the error is '404 Not Found',
\* and the result loop marks the URL of such a result deleted.
C8_NotFoundTerminal ==
  [][/\ \A t \in DOMAIN tasks' :
          tasks'[t].resp = "404" =>
            /\ tasks'[t].tpc = "returned"
            /\ tasks'[t].ret.url = tasks'[t].url
            /\ tasks'[t].ret.body = None
            /\ SKIP_404_ERRORS => tasks'[t].ret.error = "404 Not Found"
     /\ (pc = "ingest" /\ processed_count' = processed_count + 1
           /\ all_results[processed_count + 1].error = "404 Not Found")
          => LET u == all_results[processed_count + 1].url
             IN /\ u \in DOMAIN url_status_cache'
                /\ url_status_cache'[u].status = "deleted"]_vars

\* A URL answered 404 under the default setting has been marked deleted by
\* the result loop.
C8_Witness ==
  /\ SKIP_404_ERRORS
  /\ pc = "ingest"
  /\ processed_count > 0
  /\ LET r == all_results[processed_count]
     IN /\ r.error = "404 Not Found"
        /\ r.url \in failed_urls
        /\ url_status_cache[r.url].status = "deleted"

\* The same under SKIP_404_ERRORS = False: the 404 has given a result with
\* the client-error text after one attempt.
C8_WitnessEscalated ==
  /\ ~SKIP_404_ERRORS
  /\ \E t \in DOMAIN tasks :
       /\ tasks[t].resp = "404"
       /\ tasks[t].tpc = "returned"
       /\ tasks[t].ret.error = ClientErrorText("404")

C10_ResumeIdempotence ==
  [][(/\ pc = "ready"
      /\ pc' # "ready"
      /\ resume_mode
      /\ \A u \in Range(file_urls) : u \in processed_urls)
       => /\ pc' = "returned"
          /\ stats'.processed_urls = 0
          /\ stats'.total_urls = Len(file_urls)
          /\ UNCHANGED <<fetcherVars, cacheVars, storeVars, diskVars>>]_vars

\* A resumed run of a list whose URLs are all processed, one of them with
\* status error, has returned without dispatching anything.
C10_Witness ==
  /\ pc = "returned"
  /\ resume_mode
  /\ file_urls # <<>>
  /\ urls_to_process = <<>>
  /\ \A u \in Range(file_urls) : u \in processed_urls
  /\ \E u \in Range(file_urls) : url_status_cache[u].status = "error"
  /\ stats.processed_urls = 0
  /\ stats.total_urls = Len(file_urls)

\* The step is a call of add_gifts_to_collection with a non-empty batch.
AddStep == last_call'.op = "add" /\ clock' = clock + 1

\* The place of the record with gift_id id in the list gs.
PlaceOf(gs, id) == CHOOSE i \in DOMAIN gs : gs[i].gift_id = id

HasId(gs, id) == \E i \in DOMAIN gs : gs[i].gift_id = id

\* C11. add_gifts_to_collection handles the records in order: an unseen id
\* is appended; a present id whose stored record differs is replaced in
\* place, updated_at stamped and previous_status set to the replaced
\* record's status; an equal record changes nothing; the call returns
\* appended + replaced. The same id twice in a batch with differing content
\* leaves the later record, with the earlier one's status as previous_status.
C11_UpsertInOrder ==
  [][AddStep =>
       LET b == last_call'.batch
           old == LoadCollection.gifts
           new == collections_cache'[COLLECTION].gifts
       IN /\ Len(b) = 1 =>
               LET g == b[1]
               IN IF ~HasId(old, g.gift_id)
                  THEN new = Append(old, g) /\ last_call'.ret = 1
                  ELSE LET i == PlaceOf(old, g.gift_id)
                       IN IF old[i] # g
                          THEN /\ new = [old EXCEPT ![i] =
                                           [g EXCEPT !.updated_at = clock,
                                                     !.previous_status = old[i].status]]
                               /\ last_call'.ret = 1
                          ELSE new = old /\ last_call'.ret = 0
          /\ (Len(b) = 2 /\ b[1].gift_id = b[2].gift_id /\ b[1] # b[2]) =>
               LET i == PlaceOf(new, b[2].gift_id)
               IN /\ new[i] = [b[2] EXCEPT !.updated_at = clock,
                                           !.previous_status = b[1].status]
                  /\ Len(new) = IF HasId(old, b[1].gift_id) THEN Len(old)
                                ELSE Len(old) + 1
                  /\ \A j \in DOMAIN old : j # i => new[j] = old[j]
                  /\ last_call'.ret = IF HasId(old, b[1].gift_id)
                                         /\ old[PlaceOf(old, b[1].gift_id)] = b[1]
                                      THEN 1 ELSE 2]_vars

\* A call with the same gift twice, its status differing, has replaced the
\* stored record by the first and then by the second.
C11_Witness ==
  /\ last_call.op = "add"
  /\ Len(last_call.batch) = 2
  /\ last_call.batch[1].gift_id = last_call.batch[2].gift_id
  /\ last_call.batch[1].status # last_call.batch[2].status
  /\ last_call.ret = 2
  /\ COLLECTION \in DOMAIN collections_cache
  /\ \E i \in DOMAIN collections_cache[COLLECTION].gifts :
       LET g == collections_cache[COLLECTION].gifts[i]
       IN /\ g.gift_id = last_call.batch[2].gift_id
          /\ g.status = last_call.batch[2].status
          /\ g.previous_status = last_call.batch[1].status
          /\ g.updated_at # NoTime
          /\ Len(collections_cache[COLLECTION].gifts) > 1

\* What a caller ingests of a record: the fields the parser gives it.
Content(g) == <<g.url, g.gift_id, g.status, g.parsed_at>>

\* C12. Upsert idempotence: upserting again a record with the same id and
\* content as the one last ingested for that id, also when the stored record
\* already carries updated_at and previous_status, leaves these two fields
\* unchanged and returns 0.
C12_UpsertIdempotent ==
  [][(AddStep /\ Len(last_call'.batch) = 1) =>
       LET g == last_call'.batch[1]
           old == LoadCollection.gifts
           new == collections_cache'[COLLECTION].gifts
       IN (HasId(old, g.gift_id)
             /\ Content(old[PlaceOf(old, g.gift_id)]) = Content(g)) =>
            LET i == PlaceOf(old, g.gift_id)
            IN /\ new[i].updated_at = old[i].updated_at
               /\ new[i].previous_status = old[i].previous_status
               /\ last_call'.ret = 0]_vars

\* C13. Atomic write: at every instant of save_collection, a crash between
\* the temp-file write and the rename included, the file <name>.json is a
\* complete document, and whenever it changes it becomes the encoding of the
\* collection as it was in memory at an instant of that save.
C13_AtomicWrite ==
  [][/\ \A c \in DOMAIN disk_gifts : disk_gifts[c] # PartialFile
     /\ \A c \in DOMAIN disk_gifts' : disk_gifts'[c] # PartialFile
     /\ disk_gifts' # disk_gifts =>
          /\ COLLECTION \in DOMAIN disk_gifts'
          /\ \/ disk_gifts'[COLLECTION] \in snapshots
             \/ /\ COLLECTION \in DOMAIN collections_cache'
                /\ disk_gifts'[COLLECTION] = collections_cache'[COLLECTION]]_vars

\* The process died between the opening of the temp file and the rename,
\* after an upsert: the temp file is partial, the collection file is the
\* version of the earlier run.
C13_Witness ==
  /\ COLLECTION \notin DOMAIN collections_cache
  /\ save_pc = "idle"
  /\ COLLECTION \in DOMAIN disk_tmp
  /\ disk_tmp[COLLECTION] = PartialFile
  /\ COLLECTION \in DOMAIN disk_gifts
  /\ disk_gifts[COLLECTION].gifts # <<>>
  /\ clock > MaxClock

UniqueIds(gs) == \A i, j \in DOMAIN gs : gs[i].gift_id = gs[j].gift_id => i = j

\* C17. From an empty collection or a persisted one with unique ids, no
\* sequence of loads, upserts and saves gives a collection, in memory or on
\* disk, in which two records have the same gift_id.
C17_UniqueIds ==
  /\ \A c \in DOMAIN collections_cache : UniqueIds(collections_cache[c].gifts)
  /\ \A c \in DOMAIN disk_gifts : UniqueIds(disk_gifts[c].gifts)

\* Two gifts are stored, one of them replaced by a later upsert of its id,
\* and the collection has been saved.
C17_Witness ==
  /\ COLLECTION \in DOMAIN collections_cache
  /\ COLLECTION \in DOMAIN disk_gifts
  /\ Len(collections_cache[COLLECTION].gifts) = 2
  /\ disk_gifts[COLLECTION].gifts = collections_cache[COLLECTION].gifts
  /\ \E i \in 1..2 : collections_cache[COLLECTION].gifts[i].updated_at # NoTime

IdsOf(m) == IF COLLECTION \in DOMAIN m
            THEN {m[COLLECTION].gifts[i].gift_id : i \in DOMAIN m[COLLECTION].gifts}
            ELSE {}

SizeOf(m) == IF COLLECTION \in DOMAIN m THEN Len(m[COLLECTION].gifts) ELSE 0

\* C18. No sequence of upsert, save and load operations removes a record:
\* the gift_ids of the collection only grow and the number of records never
\* decreases, in memory (while the process lives) and in the persisted file.
C18_NeverRemoved ==
  [][/\ IdsOf(disk_gifts) \subseteq IdsOf(disk_gifts')
     /\ SizeOf(disk_gifts) <= SizeOf(disk_gifts')
     /\ collections_cache' # EmptyMap =>
          /\ IdsOf(collections_cache) \subseteq IdsOf(collections_cache')
          /\ SizeOf(collections_cache) <= SizeOf(collections_cache')]_vars


\* The records of the persisted collection file hold the gift id.
Persisted(id) ==
  /\ COLLECTION \in DOMAIN disk_gifts
  /\ HasId(disk_gifts[COLLECTION].gifts, id)

\* C14: crash consistency of store and cache. Whatever happens (a write of
\* save_collection failing, a run aborted and cleaned up), every URL that
\* the persisted cache records as active has its record, by gift id, in the
\* persisted collection file.
C14_ActiveHasRecord ==
  \A u \in DOMAIN disk_status :
    disk_status[u].status = "active" => Persisted(disk_status[u].metadata.gift_id)

\* C15: graceful shutdown. Once a signal has cleared the running flag, no
\* task for a fetch of a URL of the collection is created any more, and a
\* run that leaves after the signal has both stores on disk.
StoresFlushed ==
  /\ \A c \in DOMAIN collections_cache :
       c \in DOMAIN disk_gifts /\ disk_gifts[c].gifts = collections_cache[c].gifts
  /\ disk_status = url_status_cache
  /\ disk_processed = processed_urls

C15_GracefulShutdown ==
  [][/\ ~running => (pc' = "awaiting" => pc = "awaiting")
     /\ (~running /\ pc' \in {"done", "failed"}) => StoresFlushed']_vars

\* C16: flush on failure. A run that ends by a failure has written the
\* in-memory collections and the cache to disk before it leaves.
C16_FlushOnFailure ==
  pc = "failed" => StoresFlushed


\* The records of collection COLLECTION in the store m, none when it is not loaded.
GiftsIn(m) == IF COLLECTION \in DOMAIN m THEN m[COLLECTION].gifts ELSE <<>>

\* One iteration of the result loop handles result number processed_count + 1.
IngestStep == pc = "ingest" /\ processed_count' = processed_count + 1

\* What one iteration does with its result when the error texts in notFound
\* are the ones that stand for a 404: exactly one mark, for the URL of the
\* result, with the status and metadata of its case, an upsert only with
\* the mark active, and the loop goes on.
IngestMarks(notFound) ==
  IngestStep =>
    LET r == all_results[processed_count + 1]
        u == r.url
        entry == url_status_cache'[u]
    IN /\ u \in DOMAIN url_status_cache'
       /\ DOMAIN url_status_cache' = DOMAIN url_status_cache \cup {u}
       /\ \A v \in DOMAIN url_status_cache \ {u} :
            url_status_cache'[v] = url_status_cache[v]
       /\ processed_urls' = processed_urls \cup {u}
       /\ entry.processed_at = clock
       /\ IF r.body # None
          THEN \/ /\ entry.status = "active"
                  /\ entry.metadata = Metadata(GiftId(u), COLLECTION, None)
                  /\ HasId(GiftsIn(collections_cache'), GiftId(u))
                  /\ LET gs == GiftsIn(collections_cache')
                     IN /\ gs[PlaceOf(gs, GiftId(u))].url = u
                        /\ gs[PlaceOf(gs, GiftId(u))].parsed_at = clock
                  /\ success_count' = success_count + 1
               \/ /\ entry.status = "parse_failed"
                  /\ entry.metadata = NoMetadata
                  /\ GiftsIn(collections_cache') = GiftsIn(collections_cache)
                  /\ error_count' = error_count + 1
          ELSE /\ entry.status = IF r.error \in notFound THEN "deleted" ELSE "error"
               /\ entry.metadata = Metadata(None, None, r.error)
               /\ GiftsIn(collections_cache') = GiftsIn(collections_cache)
               /\ error_count' = error_count + 1
       /\ pc' = "ingest"

\* C19 as stated: each fetch result gets exactly one cache mark; a valid
\* record is upserted and its URL marked active, no record or an invalid one
\* gives parse_failed without an upsert, a result without a body gives
\* deleted after a 404, whichever text the fetcher reports it with, and
\* error after any other failure, with the error text as metadata; the
\* loop is never aborted.
C19_MarkPerResult ==
  [][IngestMarks({"404 Not Found", ClientErrorText("404")})]_vars

\* C19 amended: the same, where deleted is the mark of the result
\* '404 Not Found' that the fetcher gives for a 404 under SKIP_404_ERRORS, and
\* a 404 reported as a client error (SKIP_404_ERRORS off) is marked error.
C19_MarkPerResultText ==
  [][IngestMarks({"404 Not Found"})]_vars

\* Both kinds of 404 mark are seen together with a stored active record:
\* here an escalated 404 marked error next to an upserted record.
C19_Witness ==
  /\ ~SKIP_404_ERRORS
  /\ pc = "ingest"
  /\ \E u, v \in DOMAIN url_status_cache :
       /\ url_status_cache[u].status = "error"
       /\ url_status_cache[u].metadata.error = ClientErrorText("404")
       /\ url_status_cache[v].status = "active"
       /\ HasId(GiftsIn(collections_cache), GiftId(v))

\* A 404 skipped under SKIP_404_ERRORS marked deleted next to a result
\* without a record marked parse_failed.
C19_WitnessDeleted ==
  /\ SKIP_404_ERRORS
  /\ pc = "ingest"
  /\ \E u, v \in DOMAIN url_status_cache :
       /\ url_status_cache[u].status = "deleted"
       /\ url_status_cache[u].metadata.error = "404 Not Found"
       /\ url_status_cache[v].status = "parse_failed"


\* A call of mark_url_processed has just returned.
MarkStep == last_call'.op = "mark"

\* C20. mark_url_processed: last write wins. After a call the entry of its
\* URL holds the status and the metadata of that call and the URL is in the
\* processed set; the entries of the other URLs and their membership in the
\* processed set are as before; and a call that repeats the arguments of the
\* call just before it changes nothing but the timestamp of the entry.
C20_LastWriteWins ==
  [][MarkStep =>
       LET u == last_call'.url
       IN /\ u \in DOMAIN url_status_cache'
          /\ url_status_cache'[u].status = last_call'.status
          /\ url_status_cache'[u].metadata = last_call'.metadata
          /\ u \in processed_urls'
          /\ processed_urls' \ {u} = processed_urls \ {u}
          /\ DOMAIN url_status_cache' \ {u} = DOMAIN url_status_cache \ {u}
          /\ \A v \in DOMAIN url_status_cache \ {u} :
               url_status_cache'[v] = url_status_cache[v]
          /\ (last_call.op = "mark" /\ last_call' = last_call) =>
               /\ processed_urls' = processed_urls
               /\ url_status_cache' =
                    [url_status_cache EXCEPT
                       ![u].processed_at = url_status_cache'[u].processed_at]]_vars

\* Three calls at three different times on the two URLs: the entry of the
\* URL marked last holds the latest call, at the latest time, and the other
\* URL still has the entry of an earlier call.
C20_Witness ==
  /\ last_call.op = "mark"
  /\ DOMAIN url_status_cache = URLS
  /\ clock = 3
  /\ url_status_cache[last_call.url].processed_at = 3
  /\ url_status_cache[last_call.url].status = last_call.status
  /\ \E v \in URLS \ {last_call.url} : url_status_cache[v].processed_at = 1

\* r is s with some of its places left out: the places kept are in the
\* order they have in s.
IsSubsequence(r, s) ==
  \E f \in [DOMAIN r -> DOMAIN s] :
    /\ \A i, j \in DOMAIN r : i < j => f[i] < f[j]
    /\ \A i \in DOMAIN r : r[i] = s[f[i]]

\* C21. filter_unprocessed_urls(urls), as process_collection calls it in
\* resume mode, returns the subsequence of urls, order and duplicates
\* kept, of the URLs that are not in the processed set, and changes neither
\* the processed set, nor the status map, nor the dirty flag.
C21_FilterUnprocessed ==
  [][(pc = "ready" /\ pc' # "ready" /\ resume_mode)
       => /\ IsSubsequence(urls_to_process', all_urls')
          /\ \A u \in URLS :
               Count(urls_to_process', u) =
                 IF u \in processed_urls THEN 0 ELSE Count(all_urls', u)
          /\ UNCHANGED <<processed_urls, url_status_cache, cache_dirty>>]_vars

\* A list with a processed URL between two occurrences of an unprocessed
\* one has been filtered: both occurrences are kept.
C21_Witness ==
  /\ pc = "batching"
  /\ resume_mode
  /\ Len(all_urls) = 3
  /\ all_urls[1] = all_urls[3]
  /\ all_urls[2] \in processed_urls
  /\ urls_to_process = <<all_urls[1], all_urls[1]>>

\* One of the cache files cannot be read.
CacheFileCorrupt ==
  \/ BadLine \in disk_processed
  \/ disk_status = CorruptStatusFile
  \/ disk_progress = CorruptProgressFile

\* C22. load_cache never raises, and when one of the cache files is corrupt
\* or unreadable the CacheManager ends with an empty processed set, an empty
\* status map and an empty progress map, so that every URL counts as
\* unprocessed.
C22_DegradedLoad ==
  [][(last_call'.op = "load_cache" /\ CacheFileCorrupt)
       => /\ processed_urls' = {}
          /\ url_status_cache' = EmptyMap
          /\ collection_progress' = EmptyMap]_vars

\* The records of the persisted collection file.
PersistedGifts ==
  IF COLLECTION \in DOMAIN disk_gifts THEN disk_gifts[COLLECTION].gifts ELSE <<>>

C27_StatusDomain ==
  \A u \in DOMAIN url_status_cache :
    url_status_cache[u].status \in {"active", "deleted", "error", "parse_failed"}

\* C25. A missing input URL file is reported as a failure: the run of a
\* single collection whose URL file does not exist never ends successfully.
C25_MissingUrlsFails ==
  ~urls_file_exists => pc # "done"

\* C26. After process_collection has completed on a collection that had no
\* persisted file before the run and that produced at least one valid
\* record, both the collection file and its backup exist.
C26_FileAndBackup ==
  (pc = "returned" /\ success_count > 0)
    => /\ COLLECTION \in DOMAIN disk_gifts
       /\ COLLECTION \in DOMAIN disk_backup

\* The counters of a collection agree with its records.
CountersAgree(coll) ==
  /\ coll.total_gifts = Len(coll.gifts)
  /\ coll.processed_gifts = CountActive(coll.gifts)

\* C28. After add_gifts_to_collection or save_collection, total_gifts is the
\* number of records and processed_gifts is the number of records whose
\* status is active, in memory and, after a save, in the file.
C28_CountersAgree ==
  [][/\ (last_call'.op \in {"add", "save"}
           /\ COLLECTION \in DOMAIN collections_cache')
          => CountersAgree(collections_cache'[COLLECTION])
     /\ (last_call'.op = "save" /\ COLLECTION \in DOMAIN disk_gifts')
          => CountersAgree(disk_gifts'[COLLECTION])]_vars

\* The cache files hold what the cache holds in memory.
CacheOnDisk ==
  /\ disk_processed' = processed_urls'
  /\ disk_status' = url_status_cache'

\* The collection file holds the collection of memory, when there is one.
CollectionOnDisk ==
  COLLECTION \in DOMAIN collections_cache'
    => /\ COLLECTION \in DOMAIN disk_gifts'
       /\ disk_gifts'[COLLECTION] = collections_cache'[COLLECTION]

\* C29. Each time the count of processed results reaches a multiple of
\* SAVE_INTERVAL, save_collection and then save_cache run before the next
\* result is handled, and both run once more after the loop: after such an
\* iteration, and when process_collection returns from the loop, the
\* collection file and the cache files hold what memory holds.
C29_PeriodicAndFinalSave ==
  [][/\ (pc = "ingest" /\ processed_count' # processed_count
           /\ processed_count' % SAVE_INTERVAL = 0)
          => /\ CacheOnDisk
             /\ disk_progress' = collection_progress'
             /\ ~cache_dirty'
             /\ CollectionOnDisk
     /\ (pc = "ingest" /\ pc' = "returned")
          => /\ CacheOnDisk
             /\ disk_progress' = collection_progress
             /\ CollectionOnDisk]_vars

\* The periodic save has run after the second of three results, one of them
\* a valid record, and the third result is still to be handled.
C29_Witness ==
  /\ pc = "ingest"
  /\ processed_count = SAVE_INTERVAL
  /\ Len(all_results) > processed_count
  /\ success_count > 0
  /\ ~cache_dirty
  /\ COLLECTION \in DOMAIN disk_gifts
  /\ disk_gifts = collections_cache
  /\ disk_status = url_status_cache
  /\ url_status_cache # EmptyMap

\* C30. Nothing is marked, upserted or saved before download_with_batching
\* has returned every batch: while the batches are fetched, and when a
\* fetch makes the run fail, the cache, the collections of memory and every
\* file stay exactly as they were.
C30_NoWriteWhileFetching ==
  [][(pc \in {"batching", "awaiting"})
       => (UNCHANGED <<processed_urls, url_status_cache, collection_progress,
                       cache_dirty, collections_cache, diskVars,
                       processed_count, success_count, error_count>>)]_vars

\* The second batch is being fetched after the first one returned its
\* results, and the cache and the files of the earlier run are as they were
\* loaded: a process that dies here leaves them so.
C30_Witness ==
  /\ pc = "awaiting"
  /\ tasks # <<>>
  /\ all_results # <<>>
  /\ batch_i >= BATCH_SIZE
  /\ processed_urls # {}
  /\ processed_urls = disk_processed
  /\ url_status_cache = disk_status
  /\ collections_cache = EmptyMap
  /\ processed_count = 0

\* ------------------------------------------------ process_all_collections
\* The full run: the collections of file_list.txt one after the other, each
\* by the pipeline above, then the final save.

\* The names file_list.txt may hold: COLLECTION and one without a URL file.
CollectionNames == {COLLECTION, "d"}

\* _load_collections_list: the names of the file, in its order.
CollectionLists ==
  {s \in SeqsUpTo(CollectionNames, MaxCollections) :
     s # <<>> /\ Cardinality(Range(s)) = Len(s)}

\* The entry of collection_results for a collection that raised.
ErrorResult ==
  [error |-> TRUE, processed_urls |-> 0, successful_parses |-> 0,
   failed_parses |-> 0]

\* Where the loop goes after collection number i.
AfterCollection(i) == IF i < Len(collections) THEN "ready" ELSE "saving"

\* process_collection returned: its statistics are recorded and counted.
CollectionReturned ==
  /\ pc = "returned"
  /\ collection_results' =
       [n \in DOMAIN collection_results \cup {CurrentCollection} |->
          IF n = CurrentCollection THEN stats ELSE collection_results[n]]
  /\ completed_collections' = completed_collections + 1
  /\ coll_i' = coll_i + 1
  /\ pc' = AfterCollection(coll_i)
  /\ UNCHANGED <<runVars, configVars, autoVars, collections, localVars, fetcherVars, cacheVars,
                 storeVars, diskVars>>

CollectionRaisedStops ==
  /\ pc \in {"aborted", "crashed"}
  /\ collection_results' =
       [n \in DOMAIN collection_results \cup {CurrentCollection} |->
          IF n = CurrentCollection THEN ErrorResult ELSE collection_results[n]]
  /\ coll_i' = Len(collections) + 1
  /\ pc' = "saving"
  /\ UNCHANGED <<runVars, configVars, autoVars, collections, completed_collections, localVars,
                 fetcherVars, cacheVars, storeVars, diskVars>>

\* process_collection raised: "except Exception" records the error under the
\* name of the collection and the loop goes on.
CollectionRaised ==
  /\ pc \in {"aborted", "crashed"}
  /\ collection_results' =
       [n \in DOMAIN collection_results \cup {CurrentCollection} |->
          IF n = CurrentCollection THEN ErrorResult ELSE collection_results[n]]
  /\ coll_i' = coll_i + 1
  /\ pc' = AfterCollection(coll_i)
  /\ UNCHANGED <<runVars, configVars, autoVars, collections, completed_collections, localVars,
                 fetcherVars, cacheVars, storeVars, diskVars>>

\* After the loop: save_all_collections, then save_cache(force=True).
SaveAll ==
  /\ pc = "saving"
  /\ LET saved == SaveCollection(collections_cache, disk_gifts, disk_backup)
     IN /\ collections_cache' = saved.coll
        /\ disk_gifts' = saved.file
        /\ disk_backup' = saved.backup
  /\ disk_processed' = processed_urls
  /\ disk_status' = url_status_cache
  /\ disk_progress' = collection_progress
  /\ cache_dirty' = FALSE
  /\ pc' = "alldone"
  /\ UNCHANGED <<runVars, configVars, autoVars, fullRunVars, localVars, fetcherVars, processed_urls,
                 url_status_cache, collection_progress, clock>>

\* A first full run with the default flags, at the first collection.
InitAll ==
  /\ InitCommon
  /\ collections \in CollectionLists
  /\ coll_i = 1
  /\ collection_results = EmptyMap
  /\ completed_collections = 0
  /\ urls_file_exists = TRUE
  /\ file_urls \in SeqsUpTo(URLS, MaxUrls)
  /\ clock = 1
  /\ snapshots = {}
  /\ SKIP_404_ERRORS = TRUE
  /\ SKIP_TIMEOUT_ERRORS = FALSE
  /\ resume_mode = TRUE
  /\ disk_processed = {}
  /\ disk_status = EmptyMap
  /\ disk_gifts = EmptyMap

NextAll ==
  \/ Initialize
  \/ HealthCheckDone
  \/ ProcessCollectionStart
  \/ DownloadBatch
  \/ DownloadBatchReturn
  \/ IngestResult
  \/ Finish
  \/ TaskStep
  \/ Tick
  \/ Abort
  \/ CollectionReturned
  \/ CollectionRaised
  \/ SaveAll

SpecAll == InitAll /\ [][NextAll]_vars

\* C24. In process_all_collections a failure in one collection is caught and
\* recorded under the name of that collection, the later collections are
\* still processed, in the order of the list, and the final save of all
\* collections and the forced flush of the cache still happen.
C24_FailureIsolated ==
  [][/\ (pc \in {"aborted", "crashed"} /\ pc' # pc)
          => /\ CurrentCollection \in DOMAIN collection_results'
             /\ "error" \in DOMAIN collection_results'[CurrentCollection]
             /\ \A n \in DOMAIN collection_results :
                  n # CurrentCollection
                    => collection_results'[n] = collection_results[n]
             /\ pc' = IF coll_i < Len(collections) THEN "ready" ELSE "saving"
     /\ coll_i' \in {coll_i, coll_i + 1}
     /\ DOMAIN collection_results' = {collections[i] : i \in 1..(coll_i' - 1)}
     /\ (pc' = "alldone")
          => /\ DOMAIN collection_results' = Range(collections)
             /\ disk_processed' = processed_urls'
             /\ disk_status' = url_status_cache'
             /\ disk_progress' = collection_progress'
             /\ ~cache_dirty'
             /\ CollectionOnDisk]_vars

\* The full run is over: the first collection failed after a valid record
\* was stored, the second one was processed, and all is on disk.
C24_Witness ==
  /\ pc = "alldone"
  /\ collections = <<COLLECTION, "d">>
  /\ "error" \in DOMAIN collection_results[COLLECTION]
  /\ "error" \notin DOMAIN collection_results["d"]
  /\ completed_collections = 1
  /\ processed_urls # {}
  /\ disk_processed = processed_urls
  /\ COLLECTION \in DOMAIN disk_gifts
  /\ disk_gifts = collections_cache

\* A step on which save_collection ends in its "except Exception".
SaveFailsStep ==
  /\ save_pc # "idle"
  /\ save_pc' = "idle"
  /\ last_call'.op = "save"
  /\ last_call'.ret = 0

\* C31. When the write of the temp file or the rename fails inside
\* save_collection, the call returns False without raising, the collection
\* file is as it was before the call, the collection of memory keeps all its
\* records, and nothing prevents the next save_collection of that collection
\* from starting the whole write again.
C31_FailedSaveKeepsFile ==
  [][/\ (save_pc # "idle" /\ save_pc' # "idle") => disk_gifts' = disk_gifts
     /\ SaveFailsStep
          => /\ disk_gifts' = disk_gifts
             /\ \A c \in DOMAIN disk_gifts' : disk_gifts'[c] # PartialFile
             /\ COLLECTION \in DOMAIN collections_cache'
             /\ collections_cache'[COLLECTION].gifts
                  = collections_cache[COLLECTION].gifts
             /\ collections_cache'[COLLECTION].total_gifts
                  = Len(collections_cache'[COLLECTION].gifts)]_vars

\* The rename of a save has failed after an upsert: the call returned False,
\* the complete temp file is left, the collection file is the one of the
\* earlier run and memory holds a record the file does not have.
C31_Witness ==
  /\ save_pc = "idle"
  /\ last_call.op = "save"
  /\ last_call.ret = 0
  /\ COLLECTION \in DOMAIN disk_tmp
  /\ disk_tmp[COLLECTION] # PartialFile
  /\ COLLECTION \in DOMAIN disk_gifts
  /\ COLLECTION \in DOMAIN collections_cache
  /\ Len(collections_cache[COLLECTION].gifts) > Len(disk_gifts[COLLECTION].gifts)

\* -------------------------------------- CacheManager and its three files
\* One CacheManager: marks, progress updates, prunes, rebuilds and
\* save_cache file by file, with writes that fail and a process that dies
\* and is started again.

\* A call of the CacheManager: op, its result and, for a prune, the cutoff.
CacheCall(op, ret, how) == Call(op, <<>>, ret, None, how, NoMetadata)

\* open(file, 'w') and the write, ended early: the processed file holds the
\* first k sorted lines, a JSON file is no document.
CutShort(pos, k) ==
  [processed |-> IF pos = "urls"
                 THEN {u \in processed_urls : UrlRank(u) <= k} ELSE disk_processed,
   status |-> IF pos = "status" THEN CorruptStatusFile ELSE disk_status,
   progress |-> IF pos = "progress" THEN CorruptProgressFile ELSE disk_progress]

\* mark_url_processed(u, 'parse_failed'), as the pipeline calls it.
MarkCall ==
  /\ save_pc = "idle"
  /\ clock < MaxClock
  /\ \E u \in URLS, dt \in {0, 1} :
       /\ processed_urls' = processed_urls \cup {u}
       /\ url_status_cache' =
            MarkStatus(url_status_cache, u, "parse_failed", NoMetadata, clock + dt)
       /\ clock' = clock + dt
  /\ cache_dirty' = TRUE
  /\ last_call' = CacheCall("mark", 0, None)
  /\ UNCHANGED <<pc, configVars, autoVars, fullRunVars, localVars, fetcherVars, collection_progress,
                 collections_cache, diskVars, running, disk_tmp, save_pc, snapshots>>

\* update_collection_progress(COLLECTION, 1, 1, 1, 0).
UpdateProgressCall ==
  /\ save_pc = "idle"
  /\ collection_progress' =
       [c \in DOMAIN collection_progress \cup {COLLECTION} |->
          IF c = COLLECTION
          THEN [total_urls |-> 1, processed_urls |-> 1, success_count |-> 1,
                error_count |-> 0]
          ELSE collection_progress[c]]
  /\ cache_dirty' = TRUE
  /\ last_call' = CacheCall("progress", 0, None)
  /\ UNCHANGED <<pc, configVars, autoVars, fullRunVars, localVars, fetcherVars, processed_urls,
                 url_status_cache, storeVars, diskVars, running, disk_tmp, save_pc,
                 snapshots>>

\* cleanup_old_cache_entries(age): the cutoff is now minus a whole number of
\* days (here seconds); ret is the cutoff.
PruneCall ==
  /\ save_pc = "idle"
  /\ \E age \in 0..(clock \div InstantsPerSecond) :
       LET cutoff == clock - age * InstantsPerSecond
           kept == CleanupOld(url_status_cache, cutoff)
           gone == DOMAIN url_status_cache \ DOMAIN kept
       IN /\ url_status_cache' = kept
          /\ processed_urls' = processed_urls \ gone
          /\ cache_dirty' = (cache_dirty \/ gone # {})
          /\ last_call' = CacheCall("prune", cutoff, None)
  /\ UNCHANGED <<pc, configVars, autoVars, fullRunVars, localVars, fetcherVars, collection_progress,
                 storeVars, diskVars, running, disk_tmp, save_pc, snapshots>>

\* rebuild_cache_from_collections(data_manager): both structures are
\* cleared, then every record of every collection file is marked.
RebuildCall ==
  /\ save_pc = "idle"
  /\ LET found == COLLECTION \in DOMAIN disk_gifts
         gs == IF found THEN LoadCollection.gifts ELSE <<>>
         marks == RebuildMarks(gs, clock)
     IN /\ collections_cache' = IF found THEN [c \in {COLLECTION} |-> LoadCollection]
                                ELSE collections_cache
        /\ url_status_cache' = marks
        /\ processed_urls' = DOMAIN marks
        /\ cache_dirty' = (cache_dirty \/ marks # EmptyMap)
        /\ last_call' = CacheCall("rebuild", Cardinality(DOMAIN marks), None)
  /\ UNCHANGED <<pc, configVars, autoVars, fullRunVars, localVars, fetcherVars, collection_progress,
                 clock, diskVars, running, disk_tmp, save_pc, snapshots>>

\* save_cache(force) up to its first write: nothing to do when the cache is
\* not dirty and the save is not forced.
SaveCacheStart ==
  /\ save_pc = "idle"
  /\ \E force \in BOOLEAN :
       IF ~cache_dirty /\ ~force
       THEN /\ save_pc' = "idle"
            /\ last_call' = CacheCall("save_cache", 1, "skipped")
       ELSE /\ save_pc' = "urls"
            /\ last_call' = CacheCall("save_cache", 0, IF force THEN "forced" ELSE "dirty")
  /\ UNCHANGED <<pc, configVars, autoVars, fullRunVars, localVars, fetcherVars, cacheVars, storeVars,
                 diskVars, running, disk_tmp, snapshots>>

\* _save_processed_urls
WriteProcessedUrls ==
  /\ save_pc = "urls"
  /\ disk_processed' = processed_urls
  /\ save_pc' = "status"
  /\ UNCHANGED <<pc, configVars, autoVars, fullRunVars, localVars, fetcherVars, cacheVars, storeVars,
                 disk_gifts, disk_backup, disk_status, disk_progress, running, disk_tmp,
                 last_call, snapshots>>

\* _save_url_status_cache
WriteUrlStatusCache ==
  /\ save_pc = "status"
  /\ disk_status' = url_status_cache
  /\ save_pc' = "progress"
  /\ UNCHANGED <<pc, configVars, autoVars, fullRunVars, localVars, fetcherVars, cacheVars, storeVars,
                 disk_gifts, disk_backup, disk_processed, disk_progress, running, disk_tmp,
                 last_call, snapshots>>

\* _save_collection_progress, then the flag is cleared and True is returned.
WriteCollectionProgress ==
  /\ save_pc = "progress"
  /\ disk_progress' = collection_progress
  /\ cache_dirty' = FALSE
  /\ save_pc' = "idle"
  /\ last_call' = CacheCall("save_cache", 1, "written")
  /\ UNCHANGED <<pc, configVars, autoVars, fullRunVars, localVars, fetcherVars, processed_urls,
                 url_status_cache, collection_progress, storeVars, disk_gifts,
                 disk_backup, disk_processed, disk_status, running, disk_tmp, snapshots>>

\* The write save_cache has come to raises, at the open (the file is not
\* touched) or after it (the file is cut short): "except Exception" logs it
\* and returns False.
SaveCacheFails ==
  /\ save_pc \in {"urls", "status", "progress"}
  /\ \E opened \in BOOLEAN, k \in 0..Cardinality(URLS) :
       /\ opened \/ k = 0
       /\ disk_processed' = IF opened THEN CutShort(save_pc, k).processed ELSE disk_processed
       /\ disk_status' = IF opened THEN CutShort(save_pc, k).status ELSE disk_status
       /\ disk_progress' = IF opened THEN CutShort(save_pc, k).progress ELSE disk_progress
  /\ save_pc' = "idle"
  /\ last_call' = CacheCall("save_cache", 0, "failed")
  /\ UNCHANGED <<pc, configVars, autoVars, fullRunVars, localVars, fetcherVars, cacheVars, storeVars,
                 disk_gifts, disk_backup, running, disk_tmp, snapshots>>

\* The process dies, between two writes of save_cache or outside of it, and
\* a new process with a new CacheManager is started.
ProcessDies ==
  /\ processed_urls' = {}
  /\ url_status_cache' = EmptyMap
  /\ collection_progress' = EmptyMap
  /\ cache_dirty' = FALSE
  /\ collections_cache' = EmptyMap
  /\ save_pc' = "idle"
  /\ last_call' = CacheCall("died", 0, None)
  /\ UNCHANGED <<pc, configVars, autoVars, fullRunVars, localVars, fetcherVars, clock, diskVars,
                 running, disk_tmp, snapshots>>

\* load_cache, the first call on the new CacheManager.
LoadCacheFirst ==
  /\ last_call.op \in {"none", "died"}
  /\ LoadCacheCall

\* A new process over the files of an earlier run: the URLs it finished, the
\* records it stored for some of them.
InitFlush ==
  /\ InitCommon
  /\ NoFullRun
  /\ urls_file_exists = TRUE
  /\ file_urls = <<>>
  /\ clock = 1
  /\ snapshots = {}
  /\ SKIP_404_ERRORS = TRUE
  /\ SKIP_TIMEOUT_ERRORS = FALSE
  /\ resume_mode = TRUE
  /\ \E done \in SUBSET URLS, stored \in SUBSET URLS :
       /\ stored \subseteq done
       /\ disk_processed = done
       /\ disk_status = [u \in done |-> PersistedEntry(u, "active")]
       /\ disk_gifts = PersistedCollection([u \in stored |-> "active"])

NextFlush ==
  \/ LoadCacheFirst
  \/ MarkCall
  \/ UpdateProgressCall
  \/ PruneCall
  \/ RebuildCall
  \/ SaveCacheStart
  \/ WriteProcessedUrls
  \/ WriteUrlStatusCache
  \/ WriteCollectionProgress
  \/ SaveCacheFails
  \/ ProcessDies

SpecFlush == InitFlush /\ [][NextFlush]_vars

\* C32. save_cache(force=False) writes no file and returns True when the
\* cache is not dirty; a save_cache that writes all its files clears
\* cache_dirty; a save_cache that fails leaves cache_dirty true, so that the
\* next flush tries again; every mark_url_processed and every
\* update_collection_progress sets cache_dirty.
C32_DirtyFlag ==
  [][/\ (last_call'.op = "save_cache" /\ last_call'.status = "skipped")
          => /\ last_call'.ret = 1
             /\ UNCHANGED diskVars
     /\ (last_call'.op = "save_cache" /\ last_call'.status = "written"
           /\ save_pc = "progress")
          => ~cache_dirty'
     /\ (last_call'.op = "save_cache" /\ last_call'.status = "failed"
           /\ save_pc # "idle")
          => cache_dirty'
     /\ (last_call'.op \in {"mark", "progress"} /\ save_pc' = "idle")
          => cache_dirty']_vars

\* The cache of memory is what the cache files hold.
InSync ==
  /\ processed_urls = disk_processed
  /\ url_status_cache = disk_status
  /\ collection_progress = disk_progress

\* C33. Whenever the cache of memory differs from what the last successful
\* save_cache wrote, cache_dirty is true: no mark, progress update, prune or
\* rebuild, a rebuild over a store without records included, takes a cache
\* that is saved or dirty to one that is neither.
C33_PendingIsDirty ==
  [][(last_call'.op \in {"mark", "progress", "prune", "rebuild"}
        /\ save_pc = "idle" /\ save_pc' = "idle"
        /\ (InSync \/ cache_dirty))
       => \/ cache_dirty'
          \/ /\ processed_urls' = disk_processed'
             /\ url_status_cache' = disk_status'
             /\ collection_progress' = disk_progress']_vars

\* C37. cleanup_old_cache_entries removes from the status map and from the
\* processed set exactly the URLs whose processed_at is older than the
\* cutoff (now minus max_age_days), leaves every other entry of both and the
\* progress map as they are, and sets cache_dirty iff it removed an entry.
C37_PruneExactlyOld ==
  [][(last_call'.op = "prune" /\ save_pc = "idle" /\ save_pc' = "idle")
       => LET cutoff == last_call'.ret
              old == {u \in DOMAIN url_status_cache :
                        url_status_cache[u].processed_at < cutoff}
          IN /\ DOMAIN url_status_cache' = DOMAIN url_status_cache \ old
             /\ \A u \in DOMAIN url_status_cache' :
                  url_status_cache'[u] = url_status_cache[u]
             /\ processed_urls' = processed_urls \ old
             /\ collection_progress' = collection_progress
             /\ cache_dirty' = (cache_dirty \/ old # {})]_vars

\* C38. In every state that load_cache, mark_url_processed,
\* cleanup_old_cache_entries and rebuild_cache_from_collections produce, the
\* files read by load_cache being those a save_cache interrupted between or
\* during its writes may have left, every URL with an entry in the status map
\* is in the processed set.
C38_StatusImpliesProcessed ==
  DOMAIN url_status_cache \subseteq processed_urls

\* --------------------------------- DataManager: the save of an old upsert
\* add_gifts_to_collection and save_collection on two collections, with the
\* time of the last save that the DataManager keeps.

\* load_collection(c): the cached collection, the file, or the skeleton.
LoadCollectionRereads(c) ==
  IF c \in DOMAIN disk_gifts /\ disk_gifts[c] # PartialFile THEN disk_gifts[c]
  ELSE IF c \in DOMAIN collections_cache THEN collections_cache[c]
  ELSE EmptyCollection

LoadCollectionOf(c) ==
  IF c \in DOMAIN collections_cache THEN collections_cache[c]
  ELSE IF c \in DOMAIN disk_gifts /\ disk_gifts[c] # PartialFile THEN disk_gifts[c]
  ELSE EmptyCollection

\* The map m with the value v under the name c.
Put(m, c, v) == [x \in DOMAIN m \cup {c} |-> IF x = c THEN v ELSE m[x]]

\* save_collection(c) of the collection coll at time now: memory, the file,
\* the backup and the time of the last save after it.
SaveOf(c, coll, now) ==
  [coll |-> Put(collections_cache, c, Saved(coll)),
   file |-> Put(disk_gifts, c, Saved(coll)),
   backup |-> IF c \in DOMAIN disk_gifts THEN Put(disk_backup, c, disk_gifts[c])
              ELSE disk_backup,
   last |-> now,
   at |-> Put(saved_at, c, now)]

AutoSaveDuePerCollection(c) ==
  clock - (IF c \in DOMAIN saved_at THEN saved_at[c] ELSE 0) > AUTO_SAVE_AFTER

\* The test at the end of add_gifts_to_collection.
AutoSaveDue(c) == clock - last_save_time > AUTO_SAVE_AFTER

\* add_gifts_to_collection(c, [gift]) with a record parsed now.
AddGiftsTo ==
  /\ \E c \in CollectionNames :
       LET gift == Gift(TEST_URL, GiftId(TEST_URL), "active", clock)
           added == AddGifts(LoadCollectionOf(c), <<gift>>, clock)
           saved == SaveOf(c, added, clock)
       IN /\ collections_cache' = IF AutoSaveDue(c) THEN saved.coll
                                  ELSE Put(collections_cache, c, added)
          /\ disk_gifts' = IF AutoSaveDue(c) THEN saved.file ELSE disk_gifts
          /\ disk_backup' = IF AutoSaveDue(c) THEN saved.backup ELSE disk_backup
          /\ last_save_time' = IF AutoSaveDue(c) THEN saved.last ELSE last_save_time
          /\ saved_at' = IF AutoSaveDue(c) THEN saved.at ELSE saved_at
          /\ last_call' = Call("add", <<gift>>, 1, None, None, Metadata(None, c, None))
  /\ UNCHANGED <<pc, configVars, fullRunVars, localVars, fetcherVars, cacheVars, clock,
                 disk_processed, disk_status, disk_progress, running, disk_tmp,
                 save_pc, snapshots>>

\* save_collection(c) of a cached collection, as the pipeline calls it.
SaveCollectionOf ==
  /\ \E c \in DOMAIN collections_cache :
       LET saved == SaveOf(c, collections_cache[c], clock)
       IN /\ collections_cache' = saved.coll
          /\ disk_gifts' = saved.file
          /\ disk_backup' = saved.backup
          /\ last_save_time' = saved.last
          /\ saved_at' = saved.at
          /\ last_call' = Call("save", <<>>, 1, None, None, Metadata(None, c, None))
  /\ UNCHANGED <<pc, configVars, fullRunVars, localVars, fetcherVars, cacheVars, clock,
                 disk_processed, disk_status, disk_progress, running, disk_tmp,
                 save_pc, snapshots>>

\* Time passes.
AutoTick ==
  /\ clock <= MaxClock
  /\ clock' = clock + 1
  /\ UNCHANGED <<pc, configVars, autoVars, fullRunVars, localVars, fetcherVars, cacheVars,
                 collections_cache, diskVars, runVars>>

\* A new DataManager at time 0 and an empty output directory.
InitAuto ==
  /\ InitCommon
  /\ NoFullRun
  /\ urls_file_exists = TRUE
  /\ file_urls = <<>>
  /\ clock = 0
  /\ snapshots = {}
  /\ SKIP_404_ERRORS = TRUE
  /\ SKIP_TIMEOUT_ERRORS = FALSE
  /\ resume_mode = TRUE
  /\ disk_processed = {}
  /\ disk_status = EmptyMap
  /\ disk_gifts = EmptyMap

NextAuto ==
  \/ AddGiftsTo
  \/ SaveCollectionOf
  \/ AutoTick

SpecAuto == InitAuto /\ [][NextAuto]_vars

\* C34. The automatic save is per collection: whenever
\* add_gifts_to_collection changes collection c and more than the threshold
\* has passed since the last successful save of c itself, c is saved within
\* that call, whatever other collections were saved in the meantime.
C34_AutoSavePerCollection ==
  [][\A c \in CollectionNames :
       (/\ last_call'.op = "add"
        /\ last_call'.metadata.collection = c
        /\ collections_cache' # collections_cache
        /\ AutoSaveDuePerCollection(c))
         => /\ c \in DOMAIN disk_gifts'
            /\ disk_gifts'[c] = collections_cache'[c]]_vars

\* C35. The result returned by process_collection has processed_urls =
\* successful_parses + failed_parses, processed_urls is the length of the
\* filtered list handed to the fetcher, and the progress summary stored for
\* the collection holds the same three counts.
C35_ResultCounts ==
  (pc = "returned" /\ all_urls # <<>>)
    => /\ stats.processed_urls = stats.successful_parses + stats.failed_parses
       /\ stats.processed_urls = Len(urls_to_process)
       /\ COLLECTION \in DOMAIN collection_progress
       /\ collection_progress[COLLECTION].processed_urls = stats.processed_urls
       /\ collection_progress[COLLECTION].success_count = stats.successful_parses
       /\ collection_progress[COLLECTION].error_count = stats.failed_parses

\* C40. A URL waiting in exponential backoff between two attempts holds
\* neither a slot of the semaphore nor an admission of the rate limiter: the
\* free slots are all but those of the tasks between acquire and the end of
\* their attempt, so a task in backoff does not keep another from fetching.
C40_BackoffHoldsNothing ==
  /\ \A t \in DOMAIN tasks :
       tasks[t].tpc = "backoff" => (t \notin holds /\ t \notin admitted)
  /\ semaphore = MAX_CONCURRENT_REQUESTS
                   - Cardinality({t \in DOMAIN tasks : tasks[t].tpc \in {"throttle", "request"}})

\* One task is in backoff while another one holds the only slot and is
\* fetching.
C40_Witness ==
  \E t, s \in DOMAIN tasks :
    /\ tasks[t].tpc = "backoff"
    /\ tasks[s].tpc = "request"
    /\ s \in holds
    /\ s \in admitted

\* ------------------------------------------- DataManager: load_collection
\* Loads and upserts of two collections in one process while the files of
\* the output directory are deleted or replaced from outside.

\* A file written by an earlier run: one deleted gift.
OtherFile ==
  Saved(AddGifts(EmptyCollection, <<Gift(TEST_URL, GiftId(TEST_URL), "deleted", 0)>>, 0))

\* load_collection(c); the call record holds the collection it returns.
LoadCollectionAgain ==
  /\ \E c \in CollectionNames :
       /\ collections_cache' = Put(collections_cache, c, LoadCollectionOf(c))
       /\ last_call' = Call("load", <<>>, LoadCollectionOf(c), None, None,
                            Metadata(None, c, None))
  /\ UNCHANGED <<pc, configVars, autoVars, fullRunVars, localVars, fetcherVars, cacheVars, clock,
                 diskVars, running, disk_tmp, save_pc, snapshots>>

\* Something outside the process deletes the file of a collection or puts
\* another content in its place.
FileChanged ==
  /\ \E c \in CollectionNames :
       \/ /\ c \in DOMAIN disk_gifts
          /\ disk_gifts' = [x \in DOMAIN disk_gifts \ {c} |-> disk_gifts[x]]
       \/ \E content \in {PartialFile, EmptyCollection, OtherFile} :
            /\ (IF c \in DOMAIN disk_gifts THEN disk_gifts[c] # content ELSE TRUE)
            /\ disk_gifts' = Put(disk_gifts, c, content)
  /\ UNCHANGED <<pc, configVars, autoVars, fullRunVars, localVars, fetcherVars, cacheVars, clock,
                 collections_cache, disk_backup, disk_processed, disk_status, disk_progress,
                 runVars>>

\* A new DataManager; each collection has a file of an earlier run or none.
InitLoad ==
  /\ InitCommon
  /\ NoFullRun
  /\ urls_file_exists = TRUE
  /\ file_urls = <<>>
  /\ clock = 0
  /\ snapshots = {}
  /\ SKIP_404_ERRORS = TRUE
  /\ SKIP_TIMEOUT_ERRORS = FALSE
  /\ resume_mode = TRUE
  /\ disk_processed = {}
  /\ disk_status = EmptyMap
  /\ \E have \in SUBSET CollectionNames : disk_gifts = [c \in have |-> OtherFile]

NextLoad ==
  \/ LoadCollectionAgain
  \/ AddGiftsTo
  \/ FileChanged
  \/ AutoTick

SpecLoad == InitLoad /\ [][NextLoad]_vars

\* C39. load_collection(name) creates and caches an empty skeleton when no
\* persisted file exists; once the collection is in memory, every later
\* load_collection(name) returns that in-memory collection, with the upserts
\* made since, and leaves it as it is, whatever has happened to the file.
\* (A step that ends with a load as the last call and changes neither the
\* clock nor a file is a load.)
C39_LoadReturnsMemory ==
  [][\A c \in CollectionNames :
       (last_call'.op = "load" /\ last_call'.metadata.collection = c
          /\ clock' = clock /\ disk_gifts' = disk_gifts)
         => /\ (c \notin DOMAIN collections_cache /\ c \notin DOMAIN disk_gifts)
                 => /\ last_call'.ret = EmptyCollection
                    /\ collections_cache'[c] = EmptyCollection
            /\ c \in DOMAIN collections_cache
                 => /\ last_call'.ret = collections_cache[c]
                    /\ collections_cache' = collections_cache]_vars

\* A load has just returned the collection in memory, which holds an upsert,
\* while the file of the collection is gone or holds something else.
C39_Witness ==
  \E c \in CollectionNames :
    /\ last_call.op = "load"
    /\ last_call.metadata.collection = c
    /\ c \in DOMAIN collections_cache
    /\ collections_cache[c].gifts # <<>>
    /\ last_call.ret = collections_cache[c]
    /\ (IF c \in DOMAIN disk_gifts THEN disk_gifts[c] # collections_cache[c] ELSE TRUE)

\* ----------------------------------------- process_all_collections: fairness
\* The steps of the main coroutine, failures of a collection included.
MainStep ==
  \/ Initialize
  \/ HealthCheckDone
  \/ ProcessCollectionStart
  \/ DownloadBatch
  \/ DownloadBatchReturn
  \/ IngestResult
  \/ Finish
  \/ Abort
  \/ CollectionReturned
  \/ CollectionRaised
  \/ SaveAll

\* A first full run over file_list.txt = c, d with a URL file of MaxUrls
\* lines for c.
InitFair ==
  /\ InitAll
  /\ collections = <<COLLECTION, "d">>
  /\ Len(file_urls) = MaxUrls

\* The event loop runs a coroutine that can go on, every fetch attempt ends,
\* every sleep ends, and time passes.
SpecAllFair ==
  /\ InitFair
  /\ [][NextAll]_vars
  /\ WF_vars(MainStep)
  /\ WF_vars(TaskStep)
  /\ WF_vars(Tick)

\* C36. Provided every fetch attempt ends, process_all_collections
\* eventually returns its final statistics: no URL is attempted more than
\* STOP_AFTER_ATTEMPT times in one submission, and a task that waits for the
\* semaphore or for the rate limiter eventually gets past it.
C36_RunTerminates ==
  /\ <>(pc = "alldone")
  /\ [](\A t \in DOMAIN tasks : tasks[t].attempt <= STOP_AFTER_ATTEMPT)
  /\ \A t \in 1..BATCH_SIZE :
       (t \in DOMAIN tasks /\ tasks[t].tpc \in {"acquire", "throttle"})
         ~> (t \in DOMAIN tasks /\ tasks[t].tpc \in {"request", "returned", "raised"})

\* The full run of two collections has returned after fetches that failed
\* and fetches that succeeded.
C36_Witness ==
  /\ pc = "alldone"
  /\ Len(collections) = 2
  /\ COLLECTION \in DOMAIN collection_results
  /\ collection_results[COLLECTION].successful_parses >= 1
  /\ collection_results[COLLECTION].failed_parses >= 1

====
